---- MODULE Spec2Model ----
(***************************************************************************)
(* Query planner of the influxql package (Select and the iterator builders *)
(* it calls) and the pointwise functions of the binary-expression          *)
(* iterators.                                                              *)
(*                                                                         *)
(* Spec    plans one SELECT statement against an IteratorCreator that may  *)
(*         fail; the heap of iterators and the log of calls are the state. *)
(* SpecFn  builds one combining iterator for a pair of operand types and   *)
(*         an operator and applies its function to one pair of points.     *)
(***************************************************************************)
EXTENDS Integers, Sequences, FiniteSets, TLC

VARIABLES
    stmt,     \* Spec: the fields of the statement, a sequence of expressions
    sopt,     \* Spec: the statement's options (Limit, Offset, Dedupe, Interval, Fill)
    env,      \* Spec: the IteratorCreator's behaviour (failures) and map-iteration order
    pc,       \* Spec: "start" before Select is called, "done" after it returned
    ret,      \* Spec: what Select returned: [itrs, err, nil]
    heap,     \* Spec: every iterator constructed during the call
    log,      \* Spec: the calls made during the call, in order
    fin,      \* SpecFn: the operand types, the operator and the two points
    fpc,      \* SpecFn: "start", "built", "failed", "done"
    fitr,     \* SpecFn: the iterator buildTransformIterator returned, or its error
    fout,     \* SpecFn: the point the iterator's fn returned, or Panic
    tbl       \* SpecTable: a table or group table, its cursors and its callers

vars == <<stmt, sopt, env, pc, ret, heap, log, fin, fpc, fitr, fout, tbl>>

(***************************************************************************)
(* Go's statement forms.  A builder returns a record with an err field,    *)
(* "" for a nil error.                                                     *)
(***************************************************************************)
\* "x := e" followed by the statements K that use x
Let(e, K(_)) == K(e)

\* "x, err := f(...); if err != nil { return nil, err }" followed by the
\* statements K that use x: r is what f returned
Try(r, K(_)) == IF r.err # "" THEN r ELSE K(r)

\* "x, err := f(...); if err != nil { ... }" with the error path F
TryOr(r, F(_), K(_)) == IF r.err # "" THEN F(r) ELSE K(r)

(***************************************************************************)
(* Bounds                                                                  *)
(***************************************************************************)
MaxFields == 2     \* fields of a multi-field statement
MaxFailAt == 2     \* the ic.CreateIterator call that may fail (0: none)
MaxVal == 2        \* point values range over -MaxVal..MaxVal
MaxCursors == 2    \* cursors the group cursor of a group table yields
MaxBatches == 2    \* non-empty batches a cursor yields
MaxDo == 2         \* calls of Do / DoArrow on a table
MaxClose == 2      \* calls of Close on a table

(***************************************************************************)
(* Expressions (the statement AST)                                         *)
(***************************************************************************)
VarRef(v) == [k |-> "VarRef", val |-> v]

Call(n, a) == [k |-> "Call", name |-> n, args |-> a]

BinaryExpr(o, l, r) == [k |-> "BinaryExpr", op |-> o, lhs |-> l, rhs |-> r]

ParenExpr(e) == [k |-> "ParenExpr", expr |-> e]

NumberLiteral(n) == [k |-> "NumberLiteral", num |-> n]

StringLiteral(s) == [k |-> "StringLiteral", str |-> s]

BooleanLiteral(b) == [k |-> "BooleanLiteral", bool |-> b]

\* expr.(Literal)
IsLiteral(e) == e.k \in {"NumberLiteral", "StringLiteral", "BooleanLiteral"}

DataTypes == {"Float", "Integer", "String", "Boolean", "Unknown"}

ArithOps == {"ADD", "SUB", "MUL", "DIV"}

CompareOps == {"EQ", "NEQ", "LT", "LTE", "GT", "GTE"}

\* AND is a token the two families do not implement
Tokens == ArithOps \cup CompareOps \cup {"AND"}

(***************************************************************************)
(* float64 values: a pair <<n, d>> standing for n/d in lowest terms, d > 0;*)
(* <<1, 0>> is +Inf, <<-1, 0>> is -Inf and <<0, 0>> is NaN.                *)
(***************************************************************************)
Abs(x) == IF x < 0 THEN -x ELSE x

RECURSIVE Gcd(_, _)
Gcd(a, b) == IF b = 0 THEN a ELSE Gcd(b, a % b)

Sign(x) == IF x < 0 THEN -1 ELSE IF x > 0 THEN 1 ELSE 0

FNorm(n, d) ==
    IF d = 0 THEN <<Sign(n), 0>>
    ELSE IF n = 0 THEN <<0, 1>>
    ELSE LET g == Gcd(Abs(n), Abs(d))
             s == Sign(d)
         IN  <<(s * n) \div g, (s * d) \div g>>

\* float64(x) of an int64
ToFloat(x) == <<x, 1>>

FZero == <<0, 1>>

FNaN == <<0, 0>>

FIsNaN(x) == x = FNaN

FAdd(x, y) == FNorm(x[1] * y[2] + y[1] * x[2], x[2] * y[2])

FSub(x, y) == FNorm(x[1] * y[2] - y[1] * x[2], x[2] * y[2])

FMul(x, y) == FNorm(x[1] * y[1], x[2] * y[2])

\* IEEE division: x/0 is an infinity, 0/0 is NaN
FDiv(x, y) == FNorm(x[1] * y[2], x[2] * y[1])

FEq(x, y) == ~FIsNaN(x) /\ ~FIsNaN(y) /\ x = y

FLt(x, y) ==
    /\ ~FIsNaN(x)
    /\ ~FIsNaN(y)
    /\ IF x[2] = 0 /\ y[2] = 0 THEN x[1] < y[1] ELSE x[1] * y[2] < y[1] * x[2]

(***************************************************************************)
(* The operator functions.  A Go func value is the record [family, op,     *)
(* typ]; typ is its Go type, the thing buildTransformIterator switches on. *)
(***************************************************************************)
NilFn == [family |-> "nil", op |-> "", typ |-> "nil"]

FFtoF == "func(float64,float64)float64"

FFtoB == "func(float64,float64)bool"

IItoI == "func(int64,int64)int64"

IItoF == "func(int64,int64)float64"

IItoB == "func(int64,int64)bool"

\* the DIV closure of floatBinaryExprFunc, with the zero check left out
floatDivUnchecked(lhs, rhs) == FDiv(lhs, rhs)

\* the DIV closure of floatBinaryExprFunc
floatDiv(lhs, rhs) == IF FEq(rhs, FZero) THEN FZero ELSE FDiv(lhs, rhs)

\* the DIV closure of integerBinaryExprFunc
integerDiv(lhs, rhs) == IF rhs = 0 THEN FZero ELSE FDiv(ToFloat(lhs), ToFloat(rhs))

floatBinaryExprFunc(op) ==
    IF op \in ArithOps THEN [family |-> "float", op |-> op, typ |-> FFtoF]
    ELSE IF op \in CompareOps THEN [family |-> "float", op |-> op, typ |-> FFtoB]
    ELSE NilFn

\* integerBinaryExprFunc with DIV returning int64 like the other arithmetic
integerBinaryExprFuncIntDiv(op) ==
    IF op \in ArithOps THEN [family |-> "integer", op |-> op, typ |-> IItoI]
    ELSE IF op \in CompareOps THEN [family |-> "integer", op |-> op, typ |-> IItoB]
    ELSE NilFn

integerBinaryExprFunc(op) ==
    IF op \in {"ADD", "SUB", "MUL"} THEN [family |-> "integer", op |-> op, typ |-> IItoI]
    ELSE IF op = "DIV" THEN [family |-> "integer", op |-> op, typ |-> IItoF]
    ELSE IF op \in CompareOps THEN [family |-> "integer", op |-> op, typ |-> IItoB]
    ELSE NilFn

binaryExprFunc(typ1, typ2, op) ==
    CASE typ1 = "Float" -> floatBinaryExprFunc(op)
      [] typ1 = "Integer" ->
            IF typ2 = "Float" THEN floatBinaryExprFunc(op) ELSE integerBinaryExprFunc(op)
      [] OTHER -> NilFn

\* fn(lhs, rhs) for a func value of the float family
ApplyFloatFn(fn, lhs, rhs) ==
    CASE fn.op = "ADD" -> FAdd(lhs, rhs)
      [] fn.op = "SUB" -> FSub(lhs, rhs)
      [] fn.op = "MUL" -> FMul(lhs, rhs)
      [] fn.op = "DIV" -> floatDiv(lhs, rhs)
      [] fn.op = "EQ" -> FEq(lhs, rhs)
      [] fn.op = "NEQ" -> ~FEq(lhs, rhs)
      [] fn.op = "LT" -> FLt(lhs, rhs)
      [] fn.op = "LTE" -> FLt(lhs, rhs) \/ FEq(lhs, rhs)
      [] fn.op = "GT" -> FLt(rhs, lhs)
      [] fn.op = "GTE" -> FLt(rhs, lhs) \/ FEq(lhs, rhs)

\* fn(lhs, rhs) for a func value of the integer family; the int64 values of
\* the model are far from the ends of the int64 range, where + - * wrap
ApplyIntegerFn(fn, lhs, rhs) ==
    CASE fn.op = "ADD" -> lhs + rhs
      [] fn.op = "SUB" -> lhs - rhs
      [] fn.op = "MUL" -> lhs * rhs
      [] fn.op = "DIV" ->
            IF fn.typ = IItoF THEN integerDiv(lhs, rhs)
            ELSE IF rhs = 0 THEN 0 ELSE Sign(lhs) * Sign(rhs) * (Abs(lhs) \div Abs(rhs))
      [] fn.op = "EQ" -> lhs = rhs
      [] fn.op = "NEQ" -> lhs # rhs
      [] fn.op = "LT" -> lhs < rhs
      [] fn.op = "LTE" -> lhs <= rhs
      [] fn.op = "GT" -> lhs > rhs
      [] fn.op = "GTE" -> lhs >= rhs

ApplyFn(fn, lhs, rhs) ==
    IF fn.family = "float" THEN ApplyFloatFn(fn, lhs, rhs) ELSE ApplyIntegerFn(fn, lhs, rhs)

(***************************************************************************)
(* Points.  NilPoint is the nil pointer; reading a field of it panics.     *)
(***************************************************************************)
NilPoint == [nil |-> TRUE]

Panic == [panic |-> "nil pointer dereference"]

Point(meta, value, isNil) ==
    [Name |-> meta.Name, Tags |-> meta.Tags, Time |-> meta.Time, Aux |-> meta.Aux,
     Value |-> value, Nil |-> isNil]

\* the fn of floatExprIterator
floatExprFn(fn, a, b) ==
    IF a # NilPoint /\ b # NilPoint THEN
        IF ~a.Nil /\ ~b.Nil THEN [a EXCEPT !.Value = ApplyFn(fn, a.Value, b.Value)]
        ELSE IF a.Nil THEN a
        ELSE b
    ELSE IF a # NilPoint THEN [a EXCEPT !.Value = FZero, !.Nil = TRUE]
    ELSE IF b = NilPoint THEN Panic
    ELSE [b EXCEPT !.Value = FZero, !.Nil = TRUE]

\* the fn of integerExprIterator
integerExprFn(fn, a, b) ==
    IF a # NilPoint /\ b # NilPoint THEN
        IF ~a.Nil /\ ~b.Nil THEN [a EXCEPT !.Value = ApplyFn(fn, a.Value, b.Value)]
        ELSE IF a.Nil THEN a
        ELSE b
    ELSE IF a # NilPoint THEN [a EXCEPT !.Value = 0, !.Nil = TRUE]
    ELSE IF b = NilPoint THEN Panic
    ELSE [b EXCEPT !.Value = 0, !.Nil = TRUE]

\* newPointExprFn with the test of b.Nil left out
newPointExprFnIgnoresRightNil(fn, a, b, zero) ==
    IF a = NilPoint THEN Panic
    ELSE IF (a # NilPoint /\ b # NilPoint) /\ ~a.Nil
         THEN Point(a, ApplyFn(fn, a.Value, b.Value), FALSE)
         ELSE Point(a, zero, TRUE)

\* the fn of integerFloatExprIterator, floatBooleanExprIterator and
\* integerBooleanExprIterator: the point literal reads a.Name before any nil
\* check; zero is the zero value of the result type
newPointExprFn(fn, a, b, zero) ==
    IF a = NilPoint THEN Panic
    ELSE IF (a # NilPoint /\ b # NilPoint) /\ (~a.Nil /\ ~b.Nil)
         THEN Point(a, ApplyFn(fn, a.Value, b.Value), FALSE)
         ELSE Point(a, zero, TRUE)

integerFloatExprFn(fn, a, b) == newPointExprFn(fn, a, b, FZero)

floatBooleanExprFn(fn, a, b) == newPointExprFn(fn, a, b, FALSE)

integerBooleanExprFn(fn, a, b) == newPointExprFn(fn, a, b, FALSE)

\* what integerFloatCastIterator.Next makes of its input's point
castToFloat(p) == IF p = NilPoint THEN NilPoint ELSE [p EXCEPT !.Value = ToFloat(p.Value)]

(***************************************************************************)
(* Iterators.  The heap is the sequence of every iterator constructed so   *)
(* far; an iterator is named by its index and 0 is the nil Iterator.  A    *)
(* build state st is [heap, log, nCreate]; a builder returns [itr, err,    *)
(* st], with err = "" for a nil error.                                     *)
(***************************************************************************)
NoItr == 0

NoTags == <<>>

EmptyState == [heap |-> <<>>, log |-> <<>>, nCreate |-> 0]

Ev(e, i, a, n) == [ev |-> e, itr |-> i, aux |-> a, name |-> n]

Logged(st, e) == [st EXCEPT !.log = Append(@, e)]

Ok(i, st) == [itr |-> i, err |-> "", st |-> st]

Fail(e, st) == [itr |-> NoItr, err |-> e, st |-> st]

\* a new iterator of the given kind over the inputs ins
NewItr(st, kind, typ, ins, name, fn, tags, opt) ==
    LET it == [kind |-> kind, typ |-> typ, in |-> ins, closed |-> FALSE, name |-> name,
               fn |-> fn, tags |-> tags, aux |-> opt.Aux, interval |-> opt.Interval,
               src |-> NoItr]
    IN  Ok(Len(st.heap) + 1, [st EXCEPT !.heap = Append(@, it)])

iteratorDataType(st, itr) == st.heap[itr].typ

literalDataType(lit) ==
    CASE lit.k = "NumberLiteral" -> "Float"
      [] lit.k = "StringLiteral" -> "String"
      [] lit.k = "BooleanLiteral" -> "Boolean"
      [] OTHER -> "Unknown"

\* The storage schema the IteratorCreator serves: the type of each field
\* and tag; "x" is a field the storage does not know.
FieldType(name) ==
    CASE name = "v" -> "Float"
      [] name = "w" -> "Integer"
      [] name = "s" -> "String"
      [] name = "ok" -> "Boolean"
      [] name \in {"host", "region", "zone"} -> "String"
      [] OTHER -> "Unknown"

\* the type of the leaf the storage makes for opt.Expr (a VarRef or a
\* pushed-down aggregate)
LeafType(expr) ==
    CASE expr.k = "VarRef" -> FieldType(expr.val)
      [] expr.k = "nil" -> "Float"
      [] expr.k = "Call" /\ expr.name = "count" -> "Integer"
      [] expr.k = "Call" /\ expr.name = "mean" -> "Float"
      [] expr.k = "Call" /\ Len(expr.args) > 0 /\ expr.args[1].k = "VarRef" ->
            FieldType(expr.args[1].val)
      [] OTHER -> "Unknown"

\* ic.CreateIterator of the storage: the env.failAt-th call fails
icCreateIterator(opt, st) ==
    IF env.failAt = st.nCreate + 1
    THEN Fail("storage: create iterator",
              Logged([st EXCEPT !.nCreate = @ + 1], Ev("CreateIterator", NoItr, opt.Aux, "")))
    ELSE Let(NewItr([st EXCEPT !.nCreate = @ + 1], "leaf", LeafType(opt.Expr), <<>>, "",
                    NilFn, NoTags, opt),
             LAMBDA r : Ok(r.itr, Logged(r.st, Ev("CreateIterator", r.itr, opt.Aux, ""))))

\* ic.SeriesKeys of the storage
icSeriesKeys(opt, st) ==
    LET st1 == Logged(st, Ev("SeriesKeys", NoItr, opt.Aux, ""))
    IN  IF env.seriesKeysFail THEN Fail("storage: series keys", st1) ELSE Ok(NoItr, st1)

\* aitr.Iterator(name): a handle on one auxiliary field of the aux iterator
auxIterator(aitr, name, st) ==
    LET it == [kind |-> "auxHandle", typ |-> FieldType(name), in |-> <<>>, closed |-> FALSE,
               name |-> name, fn |-> NilFn, tags |-> NoTags, aux |-> st.heap[aitr].aux,
               interval |-> 0, src |-> aitr]
        id == Len(st.heap) + 1
    IN  Ok(id, Logged([st EXCEPT !.heap = Append(@, it)], Ev("AuxHandle", id, <<>>, name)))

\* aitr.CreateIterator(opt): the aux iterator as an IteratorCreator
auxCreateIterator(aitr, opt, st) ==
    IF opt.Expr.k = "VarRef" THEN auxIterator(aitr, opt.Expr.val, st)
    ELSE Fail("invalid expression type for an aux iterator", st)

\* ic.CreateIterator(opt): ic is NoItr for the storage, else an aux iterator
CreateIterator(ic, opt, st) ==
    IF ic = NoItr THEN icCreateIterator(opt, st) ELSE auxCreateIterator(ic, opt, st)

\* the iterators itr.Close() closes: itr and, transitively, its inputs
RECURSIVE Owned(_, _)
Owned(h, itr) ==
    {itr} \cup UNION {Owned(h, h[itr].in[j]) : j \in 1..Len(h[itr].in)}

\* itr.Close()
Close(st, itr) ==
    LET c == Owned(st.heap, itr)
    IN  Logged([st EXCEPT !.heap = [j \in 1..Len(@) |->
                    IF j \in c THEN [@[j] EXCEPT !.closed = TRUE] ELSE @[j]]],
               Ev("Close", itr, <<>>, ""))

\* Iterators(itrs).Close(): closes the iterators of a slice in order
RECURSIVE CloseAll(_, _)
CloseAll(st, itrs) ==
    IF itrs = <<>> THEN st ELSE CloseAll(Close(st, Head(itrs)), Tail(itrs))

\* Iterators(itrs).filterNonNil()
filterNonNil(itrs) == SelectSeq(itrs, LAMBDA i : i # NoItr)

(***************************************************************************)
(* The wrapping constructors.  Each accepts the input types its iterator   *)
(* family exists for and fails on the others.                              *)
(***************************************************************************)
Supports(kind, typ) ==
    CASE kind \in {"distinct", "count"} -> typ \in {"Float", "Integer", "String", "Boolean"}
      [] kind \in {"median", "stddev", "spread", "top", "bottom", "percentile",
                   "derivative"} -> typ \in {"Float", "Integer"}
      [] OTHER -> TRUE

OutType(kind, typ) ==
    CASE kind = "count" -> "Integer"
      [] kind \in {"median", "stddev", "derivative"} -> "Float"
      [] OTHER -> typ

\* NewDistinctIterator, newCountIterator, newMedianIterator, ... : the
\* constructor of kind over input; name and tags are what the call passes
Construct(kind, input, name, tags, opt, st) ==
    LET typ == iteratorDataType(st, input)
    IN  IF Supports(kind, typ)
        THEN NewItr(st, kind, OutType(kind, typ), <<input>>, name, NilFn, tags, opt)
        ELSE Fail("unsupported iterator type", st)

NewIntervalIterator(input, opt, st) == Construct("interval", input, "", NoTags, opt, st)

NewFillIterator(input, expr, opt, st) == Construct("fill", input, expr.name, NoTags, opt, st)

NewLimitIterator(input, opt, st) ==
    NewItr(st, "limit", IF input = NoItr THEN "Unknown" ELSE iteratorDataType(st, input),
           IF input = NoItr THEN <<>> ELSE <<input>>, IF input = NoItr THEN "nil" ELSE "",
           NilFn, NoTags, opt)

NewDedupeIterator(input, opt, st) == Construct("dedupe", input, "", NoTags, opt, st)

NewAuxIterator(input, opt, st) ==
    Let(Construct("aux", input, "", NoTags, opt, st),
        LAMBDA r : Ok(r.itr, Logged(r.st, Ev("NewAuxIterator", r.itr, opt.Aux, ""))))

(***************************************************************************)
(* Transform iterators                                                     *)
(***************************************************************************)
\* the switch that makes a FloatIterator of an operand: a float iterator
\* as it is, an integer iterator under an integerFloatCastIterator
asFloatIterator(itr, side, opt, st) ==
    CASE iteratorDataType(st, itr) = "Float" -> Ok(itr, st)
      [] iteratorDataType(st, itr) = "Integer" ->
            NewItr(st, "integerFloatCastIterator", "Float", <<itr>>, "", NilFn, NoTags, opt)
      [] OTHER -> Fail("type mismatch on " \o side \o ", unable to use as a FloatIterator", st)

\* lhs.(IntegerIterator)
asIntegerIterator(itr, side, st) ==
    IF iteratorDataType(st, itr) = "Integer" THEN Ok(itr, st)
    ELSE Fail("type mismatch on " \o side \o ", unable to use as a IntegerIterator", st)

ExprIteratorKind(typ) ==
    CASE typ = FFtoF -> "floatExprIterator"
      [] typ = IItoF -> "integerFloatExprIterator"
      [] typ = IItoI -> "integerExprIterator"
      [] typ = FFtoB -> "floatBooleanExprIterator"
      [] typ = IItoB -> "integerBooleanExprIterator"

ResultType(typ) ==
    CASE typ \in {FFtoF, IItoF} -> "Float"
      [] typ = IItoI -> "Integer"
      [] typ \in {FFtoB, IItoB} -> "Boolean"

\* the switch of buildTransformIterator on the type of fn
transformIterator(fn, lhs, rhs, opt, st) ==
    IF fn.typ \in {FFtoF, FFtoB} THEN
        Try(asFloatIterator(lhs, "LHS", opt, st), LAMBDA l :
        Try(asFloatIterator(rhs, "RHS", opt, l.st), LAMBDA r :
            NewItr(r.st, ExprIteratorKind(fn.typ), ResultType(fn.typ),
                   <<l.itr, r.itr>>, "", fn, NoTags, opt)))
    ELSE IF fn.typ \in {IItoF, IItoI, IItoB} THEN
        Try(asIntegerIterator(lhs, "LHS", st), LAMBDA l :
        Try(asIntegerIterator(rhs, "RHS", l.st), LAMBDA r :
            NewItr(r.st, ExprIteratorKind(fn.typ), ResultType(fn.typ),
                   <<l.itr, r.itr>>, "", fn, NoTags, opt)))
    ELSE Fail("unable to construct transform iterator", st)

\* the log notes each call with its operands (it makes no part of the result)
buildTransformIterator(lhs, rhs, op, opt, st) ==
    transformIterator(binaryExprFunc(iteratorDataType(st, lhs), iteratorDataType(st, rhs), op),
                      lhs, rhs, opt, Logged(st, Ev("Transform", lhs, <<lhs, rhs>>, "Both")))

\* buildRHSTransformIterator and buildLHSTransformIterator share their
\* shape: itr is the iterator side, lit the literal side, fn the function
\* chosen for the two types in their order
literalTransformIterator(itr, lit, fn, itrSide, litSide, opt, st) ==
    IF fn.typ \in {FFtoF, FFtoB} THEN
        Try(asFloatIterator(itr, itrSide, opt, st), LAMBDA i :
            IF lit.k # "NumberLiteral"
            THEN Fail("type mismatch on " \o litSide \o ", unable to use as a NumberLiteral", i.st)
            ELSE NewItr(i.st,
                        IF fn.typ = FFtoF THEN "floatTransformIterator"
                        ELSE "floatBoolTransformIterator",
                        ResultType(fn.typ), <<i.itr>>, itrSide, fn, NoTags, opt))
    ELSE Fail("unable to construct " \o itrSide \o " literal transform iterator", st)

buildRHSTransformIterator(lhs, rhs, op, opt, st) ==
    literalTransformIterator(lhs, rhs,
        binaryExprFunc(iteratorDataType(st, lhs), literalDataType(rhs), op), "LHS", "RHS", opt,
        Logged(st, Ev("Transform", lhs, <<lhs>>, "RHS")))

buildLHSTransformIterator(lhs, rhs, op, opt, st) ==
    literalTransformIterator(rhs, lhs,
        binaryExprFunc(literalDataType(lhs), iteratorDataType(st, rhs), op), "RHS", "LHS", opt,
        Logged(st, Ev("Transform", rhs, <<rhs>>, "LHS")))

(***************************************************************************)
(* buildExprIterator                                                       *)
(***************************************************************************)
IsTopBottom(e) == e.k = "Call" /\ e.name \in {"top", "bottom"}

\* the VarRefs call.Args[i], 1 <= i < len(call.Args)-1
interiorArgs(call) == [j \in 1..(IF Len(call.args) > 2 THEN Len(call.args) - 2 ELSE 0) |->
                          call.args[j + 1]]

Vals(refs) == [j \in 1..Len(refs) |-> refs[j].val]

NoFill == "NoFill"

FillOptions == {"NoFill", "NullFill"}

\* the position (from 0) of the first element of aux equal to name, as a
\* one-element sequence, or <<>> when there is none
RECURSIVE auxIndex(_, _, _)
auxIndex(aux, name, index) ==
    IF index >= Len(aux) THEN <<>>
    ELSE IF aux[index + 1] = name THEN <<index>>
    ELSE auxIndex(aux, name, index + 1)

\* the tags loop of the top and bottom cases, over args[i], i = 1..len-2
RECURSIVE tagIndexes(_, _, _)
tagIndexes(args, aux, i) ==
    IF i >= Len(args) - 1 THEN <<>>
    ELSE auxIndex(aux, args[i + 1].val, 0) \o tagIndexes(args, aux, i + 1)

\* the guard of NewIntervalIterator in the Call case, without its exception
wrapsIntervalAlways(name) == TRUE

\* the guard of NewIntervalIterator in the Call case
wrapsInterval(name) == name # "top" /\ name # "bottom"

\* the guard of NewFillIterator in the Call case, without the interval test
wrapsFillAnyInterval(opt) == opt.Fill # NoFill

\* the guard of NewFillIterator in the Call case
wrapsFill(opt) == opt.Interval # 0 /\ opt.Fill # NoFill

RECURSIVE buildExprIterator(_, _, _, _)
RECURSIVE buildCallIterator(_, _, _, _)

\* input, err := buildExprIterator(arg, ic, opt); return construct(input, ...)
buildOver(kind, arg, tags, expr, ic, opt, st) ==
    Try(buildExprIterator(arg, ic, opt, st), LAMBDA input :
        Construct(kind, input.itr, expr.name, tags, opt, input.st))

ErrTooFewArguments(expr) ==
    expr.name \o "() requires 2 or more arguments, got " \o ToString(Len(expr.args))

\* the inner func() of the default case: the iterator of the call itself
buildCallInner(expr, ic, opt, st) ==
    CASE expr.name = "count" ->
            IF expr.args[1].k = "Call" /\ expr.args[1].name = "distinct"
            THEN buildOver("count", expr.args[1], NoTags, expr, ic, opt, st)
            ELSE CreateIterator(ic, opt, st)
      [] expr.name \in {"min", "max", "sum", "first", "last", "mean"} ->
            CreateIterator(ic, opt, st)
      [] expr.name \in {"median", "stddev", "spread", "percentile"} ->
            buildOver(expr.name, expr.args[1], NoTags, expr, ic, opt, st)
      [] expr.name \in {"top", "bottom"} ->
            IF Len(expr.args) < 2
            THEN Fail(ErrTooFewArguments(expr), st)
            ELSE buildOver(expr.name, expr.args[1],
                           IF Len(expr.args) > 2 THEN tagIndexes(expr.args, opt.Aux, 1)
                           ELSE NoTags,
                           expr, ic, opt, st)
      [] OTHER -> Fail("unsupported call: " \o expr.name, st)

\* a successful return of the Call case, noted in the log
Built(expr, r) ==
    IF r.err # "" THEN r
    ELSE Ok(r.itr, Logged(r.st, Ev("BuiltCall", r.itr,
                                   IF IsTopBottom(expr) THEN Vals(interiorArgs(expr)) ELSE <<>>,
                                   expr.name)))

buildCallIterator(expr, ic, opt, st) ==
    CASE expr.name = "distinct" ->
            Try(buildOver("distinct", expr.args[1], NoTags, expr, ic, opt, st), LAMBDA d :
                NewIntervalIterator(d.itr, opt, d.st))
      [] expr.name \in {"derivative", "non_negative_derivative"} ->
            Try(buildExprIterator(expr.args[1], ic, opt, st), LAMBDA input :
                Construct("derivative", input.itr, expr.name, NoTags,
                          [opt EXCEPT !.Interval = 0], input.st))
      [] OTHER ->
            Try(buildCallInner(expr, ic, opt, st), LAMBDA r :
            Let(IF wrapsInterval(expr.name) THEN NewIntervalIterator(r.itr, opt, r.st) ELSE r,
                LAMBDA i :
                    IF wrapsFill(opt) THEN NewFillIterator(i.itr, expr, opt, i.st) ELSE i))

\* %T of a literal
TypeName(lit) == "*influxql." \o lit.k

ErrTwoLiterals(lhs, rhs) ==
    "unable to construct an iterator from two literals: LHS: " \o TypeName(lhs)
        \o ", RHS: " \o TypeName(rhs)

\* the BinaryExpr case with the right operand built before the left
buildBinaryExprIteratorRightFirst(expr, ic, opt, st) ==
    IF IsLiteral(expr.rhs) THEN
        IF IsLiteral(expr.lhs)
        THEN Fail(ErrTwoLiterals(expr.lhs, expr.rhs), st)
        ELSE Try(buildExprIterator(expr.lhs, ic, opt, st), LAMBDA lhs :
                 buildRHSTransformIterator(lhs.itr, expr.rhs, expr.op, opt, lhs.st))
    ELSE IF IsLiteral(expr.lhs) THEN
        Try(buildExprIterator(expr.rhs, ic, opt, st), LAMBDA rhs :
            buildLHSTransformIterator(expr.lhs, rhs.itr, expr.op, opt, rhs.st))
    ELSE
        Try(buildExprIterator(expr.rhs, ic, opt, st), LAMBDA rhs :
        Try(buildExprIterator(expr.lhs, ic, opt, rhs.st), LAMBDA lhs :
            buildTransformIterator(lhs.itr, rhs.itr, expr.op, opt, lhs.st)))

buildBinaryExprIterator(expr, ic, opt, st) ==
    IF IsLiteral(expr.rhs) THEN
        IF IsLiteral(expr.lhs)
        THEN Fail(ErrTwoLiterals(expr.lhs, expr.rhs), st)
        ELSE Try(buildExprIterator(expr.lhs, ic, opt, st), LAMBDA lhs :
                 buildRHSTransformIterator(lhs.itr, expr.rhs, expr.op, opt, lhs.st))
    ELSE IF IsLiteral(expr.lhs) THEN
        Try(buildExprIterator(expr.rhs, ic, opt, st), LAMBDA rhs :
            buildLHSTransformIterator(expr.lhs, rhs.itr, expr.op, opt, rhs.st))
    ELSE
        Try(buildExprIterator(expr.lhs, ic, opt, st), LAMBDA lhs :
        Try(buildExprIterator(expr.rhs, ic, opt, lhs.st), LAMBDA rhs :
            buildTransformIterator(lhs.itr, rhs.itr, expr.op, opt, rhs.st)))

buildExprIterator(expr, ic, opt0, st) ==
    LET opt == [opt0 EXCEPT !.Expr = expr]
    IN  CASE expr.k = "VarRef" -> CreateIterator(ic, opt, st)
          [] expr.k = "Call" -> Built(expr, buildCallIterator(expr, ic, opt, st))
          [] expr.k = "BinaryExpr" -> buildBinaryExprIterator(expr, ic, opt, st)
          [] expr.k = "ParenExpr" -> buildExprIterator(expr.expr, ic, opt, st)
          [] OTHER -> Fail("invalid expression type", st)

(***************************************************************************)
(* Helpers of the AST package                                              *)
(***************************************************************************)
NilExpr == [k |-> "nil"]

\* Reduce(expr, nil): folds the constants of an expression
RECURSIVE Reduce(_)
Reduce(e) ==
    CASE e.k = "BinaryExpr" ->
            LET l == Reduce(e.lhs)
                r == Reduce(e.rhs)
            IN  IF l.k = "NumberLiteral" /\ r.k = "NumberLiteral" /\ e.op \in {"ADD", "SUB", "MUL"}
                THEN NumberLiteral(ApplyIntegerFn([op |-> e.op, typ |-> IItoI], l.num, r.num))
                ELSE BinaryExpr(e.op, l, r)
      [] e.k = "ParenExpr" ->
            LET i == Reduce(e.expr)
            IN  IF i.k = "BinaryExpr" THEN ParenExpr(i) ELSE i
      [] e.k = "Call" -> Call(e.name, [j \in 1..Len(e.args) |-> Reduce(e.args[j])])
      [] OTHER -> e

\* ContainsVarRef(expr): a VarRef outside every call
RECURSIVE ContainsVarRef(_)
ContainsVarRef(e) ==
    CASE e.k = "VarRef" -> TRUE
      [] e.k = "BinaryExpr" -> ContainsVarRef(e.lhs) \/ ContainsVarRef(e.rhs)
      [] e.k = "ParenExpr" -> ContainsVarRef(e.expr)
      [] OTHER -> FALSE

\* the Call nodes (what = "Call") or the VarRef nodes outside calls (what =
\* "VarRef") of an expression, one entry per node, in walk order
RECURSIVE Nodes(_, _)
Nodes(e, what) ==
    CASE e.k = "Call" -> IF what = "Call" THEN <<e>> ELSE <<>>
      [] e.k = "VarRef" -> IF what = "VarRef" THEN <<e>> ELSE <<>>
      [] e.k = "BinaryExpr" -> Nodes(e.lhs, what) \o Nodes(e.rhs, what)
      [] e.k = "ParenExpr" -> Nodes(e.expr, what)
      [] OTHER -> <<>>

RECURSIVE FieldNodes(_, _)
FieldNodes(fields, what) ==
    IF fields = <<>> THEN <<>>
    ELSE Nodes(Head(fields), what) \o FieldNodes(Tail(fields), what)

\* newSelectInfo(stmt): the maps calls and refs are keyed by node, so each
\* has one entry per node
newSelectInfo(fields) ==
    [calls |-> FieldNodes(fields, "Call"), refs |-> FieldNodes(fields, "VarRef")]

\* newIteratorOptionsStmt(stmt, sopt)
newIteratorOptionsStmt(o) ==
    [Expr |-> NilExpr, Aux |-> <<>>, Interval |-> o.Interval, Fill |-> o.Fill,
     Limit |-> o.Limit, Offset |-> o.Offset, Dedupe |-> o.Dedupe]

\* the names of the model in the order of sort.Strings
SortedNames == <<"host", "ok", "region", "s", "v", "w", "x", "zone">>

NameRank(name) == CHOOSE i \in 1..Len(SortedNames) : SortedNames[i] = name

RECURSIVE Insert(_, _)
Insert(sorted, name) ==
    IF sorted = <<>> THEN <<name>>
    ELSE IF NameRank(name) <= NameRank(Head(sorted)) THEN <<name>> \o sorted
    ELSE <<Head(sorted)>> \o Insert(Tail(sorted), name)

\* sort.Strings
RECURSIVE sortStrings(_)
sortStrings(a) == IF a = <<>> THEN <<>> ELSE Insert(sortStrings(Tail(a)), Head(a))

(***************************************************************************)
(* buildAuxIterators                                                       *)
(***************************************************************************)
PanicUnreachable == "panic: unreachable"

FieldsResult(itrs, err, st, slice) == [itrs |-> itrs, err |-> err, st |-> st, slice |-> slice]

\* the loop "for i, f := range fields" of buildAuxIterators from field i on
RECURSIVE auxFields(_, _, _, _, _, _)
auxFields(fields, i, aitr, opt, itrs, st) ==
    IF i > Len(fields) THEN
        \* aitr.Background()
        FieldsResult(itrs, "", Logged(st, Ev("Background", aitr, <<Len(st.heap)>>, "")), itrs)
    ELSE Let(Reduce(fields[i]), LAMBDA expr :
             CASE expr.k = "VarRef" ->
                    Let(auxIterator(aitr, expr.val, st), LAMBDA h :
                        auxFields(fields, i + 1, aitr, opt, [itrs EXCEPT ![i] = h.itr], h.st))
               [] expr.k = "BinaryExpr" ->
                    TryOr(buildExprIterator(expr, aitr, opt, st),
                          LAMBDA r : FieldsResult(<<>>,
                                         "error constructing iterator for field: " \o r.err,
                                         r.st, itrs),
                          LAMBDA r : auxFields(fields, i + 1, aitr, opt,
                                               [itrs EXCEPT ![i] = r.itr], r.st))
               [] OTHER -> FieldsResult(<<>>, PanicUnreachable, st, itrs))

\* buildAuxIterators with the limit applied before the dedupe
buildAuxIteratorsLimitFirst(fields, opt, st) ==
    TryOr(icCreateIterator(opt, st),
          LAMBDA input : FieldsResult(<<>>, input.err, input.st, <<>>),
          LAMBDA input :
    Let(IF opt.Limit > 0 \/ opt.Offset > 0 THEN NewLimitIterator(input.itr, opt, input.st)
        ELSE input, LAMBDA l :
    Let(IF opt.Dedupe THEN NewDedupeIterator(l.itr, opt, l.st) ELSE l, LAMBDA d :
    TryOr(icSeriesKeys(opt, d.st),
          LAMBDA sk : FieldsResult(<<>>, sk.err, Close(sk.st, d.itr), <<>>),
          LAMBDA sk :
    Let(NewAuxIterator(d.itr, opt, sk.st), LAMBDA aitr :
        auxFields(fields, 1, aitr.itr, opt, [j \in 1..Len(fields) |-> NoItr], aitr.st))))))

buildAuxIterators(fields, opt, st) ==
    TryOr(icCreateIterator(opt, st),
          LAMBDA input : FieldsResult(<<>>, input.err, input.st, <<>>),
          LAMBDA input :
    Let(IF opt.Dedupe THEN NewDedupeIterator(input.itr, opt, input.st) ELSE input, LAMBDA d :
    Let(IF opt.Limit > 0 \/ opt.Offset > 0 THEN NewLimitIterator(d.itr, opt, d.st) ELSE d,
        LAMBDA l :
    TryOr(icSeriesKeys(opt, l.st),
          LAMBDA sk : FieldsResult(<<>>, sk.err, Close(sk.st, l.itr), <<>>),
          LAMBDA sk :
    Let(NewAuxIterator(l.itr, opt, sk.st), LAMBDA aitr :
        auxFields(fields, 1, aitr.itr, opt, [j \in 1..Len(fields) |-> NoItr], aitr.st))))))

(***************************************************************************)
(* buildFieldIterators                                                     *)
(***************************************************************************)
Inner(itrs, err, st) == [itrs |-> itrs, err |-> err, st |-> st]

\* the first loop of the inner func, from field i on; acc is [itrs, input,
\* hasAuxFields, err, st]
RECURSIVE pass1(_, _, _, _)
pass1(fields, i, opt, acc) ==
    IF i > Len(fields) THEN acc
    ELSE IF ContainsVarRef(fields[i])
    THEN pass1(fields, i + 1, opt, [acc EXCEPT !.hasAuxFields = TRUE])
    ELSE TryOr(buildExprIterator(Reduce(fields[i]), NoItr, opt, acc.st),
               LAMBDA r : [acc EXCEPT !.err = r.err, !.st = r.st],
               LAMBDA r : pass1(fields, i + 1, opt,
                                [acc EXCEPT !.itrs[i] = r.itr, !.input = r.itr, !.st = r.st]))

RECURSIVE pass2(_, _, _, _, _, _)
\* the second loop with aitr.Start() deferred: it runs on the error path too
pass2DeferredStart(fields, i, aitr, opt, itrs, st) ==
    IF i > Len(fields) THEN
        Inner(itrs, "", Logged(st, Ev("Start", aitr, <<Len(st.heap)>>, "")))
    ELSE IF itrs[i] # NoItr
    THEN pass2(fields, i + 1, aitr, opt, [itrs EXCEPT ![i] = aitr], st)
    ELSE TryOr(buildExprIterator(Reduce(fields[i]), aitr, opt, st),
               LAMBDA r : Inner(itrs, r.err,
                                Logged(r.st, Ev("Start", aitr, <<Len(r.st.heap)>>, ""))),
               LAMBDA r : pass2(fields, i + 1, aitr, opt, [itrs EXCEPT ![i] = r.itr], r.st))

\* the second loop of the inner func, from field i on; the log notes the
\* number of iterators made when Start is called
pass2(fields, i, aitr, opt, itrs, st) ==
    IF i > Len(fields) THEN
        \* aitr.Start()
        Inner(itrs, "", Logged(st, Ev("Start", aitr, <<Len(st.heap)>>, "")))
    ELSE IF itrs[i] # NoItr
    THEN pass2(fields, i + 1, aitr, opt, [itrs EXCEPT ![i] = aitr], st)
    ELSE TryOr(buildExprIterator(Reduce(fields[i]), aitr, opt, st),
               LAMBDA r : Inner(itrs, r.err, r.st),
               LAMBDA r : pass2(fields, i + 1, aitr, opt, [itrs EXCEPT ![i] = r.itr], r.st))

\* the inner func() of buildFieldIterators: the slice it leaves and its error
buildFieldsInner(fields, opt, st) ==
    TryOr(pass1(fields, 1, opt,
                [itrs |-> [j \in 1..Len(fields) |-> NoItr], input |-> NoItr,
                 hasAuxFields |-> FALSE, err |-> "", st |-> st]),
          LAMBDA p : Inner(p.itrs, p.err, p.st),
          LAMBDA p :
              IF p.input = NoItr \/ ~p.hasAuxFields THEN Inner(p.itrs, "", p.st)
              ELSE TryOr(icSeriesKeys(opt, p.st),
                         LAMBDA sk : Inner(p.itrs, sk.err, sk.st),
                         LAMBDA sk :
                             Let(NewAuxIterator(p.input, opt, sk.st), LAMBDA aitr :
                                 pass2(fields, 1, aitr.itr, opt, p.itrs, aitr.st))))

\* the limit loop stopping after the first iterator
limitFirstOnly(itrs, i, opt, st) ==
    IF i > Len(itrs) THEN Inner(itrs, "", st)
    ELSE Let(NewLimitIterator(itrs[i], opt, st), LAMBDA l :
             Inner([itrs EXCEPT ![i] = l.itr], "", l.st))

\* "for i := range itrs { itrs[i] = NewLimitIterator(itrs[i], opt) }" from i on
RECURSIVE limitAll(_, _, _, _)
limitAll(itrs, i, opt, st) ==
    IF i > Len(itrs) THEN Inner(itrs, "", st)
    ELSE Let(NewLimitIterator(itrs[i], opt, st), LAMBDA l :
             limitAll([itrs EXCEPT ![i] = l.itr], i + 1, opt, l.st))

\* the error path of buildFieldIterators with the Close left out
failFieldsNoClose(r) == FieldsResult(<<>>, r.err, r.st, r.itrs)

\* the error path of buildFieldIterators: r is what the inner func left
failFields(r) == FieldsResult(<<>>, r.err, CloseAll(r.st, filterNonNil(r.itrs)), r.itrs)

buildFieldIterators(fields, opt, st) ==
    TryOr(buildFieldsInner(fields, opt, st),
          LAMBDA r : failFields(r),
          LAMBDA r :
              IF opt.Limit > 0 \/ opt.Offset > 0
              THEN Let(limitAll(r.itrs, 1, opt, r.st), LAMBDA l :
                       FieldsResult(l.itrs, "", l.st, r.itrs))
              ELSE FieldsResult(r.itrs, "", r.st, r.itrs))

(***************************************************************************)
(* Select                                                                  *)
(***************************************************************************)
ErrMultipleAggregates == "cannot select fields when selecting multiple aggregates"

\* the top and bottom calls among calls, in the order the map yields them
TopBottomCalls(calls) == SelectSeq(calls, IsTopBottom)

\* the iteration orders "for call := range info.calls" can take over n calls
Orders(n) == {f \in [1..n -> 1..n] : \A i, j \in 1..n : f[i] = f[j] => i = j}

\* the names the loop over info.calls appends to opt.Aux, visiting the top
\* and bottom calls in the order given
RECURSIVE extraAux(_, _, _)
extraAux(calls, order, i) ==
    IF i > Len(calls) THEN <<>>
    ELSE Vals(interiorArgs(calls[order[i]])) \o extraAux(calls, order, i + 1)

\* the rebuilt list of fields: each field, then the interior arguments of a
\* field that is a top or bottom call
RECURSIVE rebuildFields(_)
rebuildFields(fields) ==
    IF fields = <<>> THEN <<>>
    ELSE <<Head(fields)>>
         \o (IF IsTopBottom(Head(fields)) THEN interiorArgs(Head(fields)) ELSE <<>>)
         \o rebuildFields(Tail(fields))

\* the guard of Select on the calls and refs of the statement, as >= 1 calls
rejectsAnyCall(info) == Len(info.calls) > 0 /\ Len(info.refs) > 0

\* the guard of Select on the calls and refs of the statement
rejects(info) == Len(info.calls) > 1 /\ Len(info.refs) > 0

\* Select(stmt, ic, sopt) with the map of calls iterated in the given order
Select(fields, o, order) ==
    Let(newSelectInfo(fields), LAMBDA info :
        IF rejects(info) THEN FieldsResult(<<>>, ErrMultipleAggregates, EmptyState, <<>>)
        ELSE Let([newIteratorOptionsStmt(o) EXCEPT !.Aux = sortStrings(Vals(info.refs))],
                 LAMBDA opt :
                 IF Len(info.calls) = 0 /\ Len(info.refs) > 0
                 THEN buildAuxIterators(fields, opt, EmptyState)
                 ELSE Let(extraAux(TopBottomCalls(info.calls), order, 1), LAMBDA extra :
                          buildFieldIterators(
                              IF Len(extra) > 0 THEN rebuildFields(fields) ELSE fields,
                              [opt EXCEPT !.Aux = @ \o extra], EmptyState))))

(***************************************************************************)
(* Spec: one call of Select                                                *)
(***************************************************************************)
v == VarRef("v")

w == VarRef("w")

Num(n) == NumberLiteral(n)

Call1(name, arg) == Call(name, <<arg>>)

\* every call of the catalogue over one field
CatalogueCalls ==
    {Call1(n, v) : n \in {"count", "min", "max", "sum", "first", "last", "mean", "median",
                          "stddev", "spread", "distinct", "derivative",
                          "non_negative_derivative"}}
    \cup {Call("percentile", <<v, Num(50)>>),
          Call1("count", Call1("distinct", v)),
          Call1("derivative", Call1("mean", v)),
          Call("top", <<v, Num(2)>>),
          Call("bottom", <<w, Num(2)>>),
          Call("top", <<v, VarRef("host"), Num(2)>>),
          Call("bottom", <<w, VarRef("zone"), VarRef("host"), Num(2)>>)}

\* calls that fail to build
FailingCalls ==
    {Call("top", <<v>>), Call("bottom", <<v>>), Call1("foo", v)}

\* binary expressions, literals and raw fields
OtherExprs ==
    {BinaryExpr("ADD", Call1("mean", v), Num(1)),
     BinaryExpr("SUB", Num(1), Call1("max", w)),
     BinaryExpr("ADD", Call1("mean", v), Call1("max", w)),
     BinaryExpr("DIV", Call1("max", w), Call1("min", w)),
     BinaryExpr("LT", Call1("max", w), Call1("min", w)),
     BinaryExpr("ADD", Call1("mean", v), Call1("min", VarRef("s"))),
     BinaryExpr("ADD", Call1("min", VarRef("s")), Call1("mean", v)),
     BinaryExpr("ADD", Call1("mean", v), StringLiteral("a")),
     BinaryExpr("AND", Call1("mean", v), Call1("max", w)),
     BinaryExpr("ADD", Num(1), StringLiteral("a")),
     BinaryExpr("MUL", BinaryExpr("ADD", Num(1), Num(2)), Call1("mean", v)),
     ParenExpr(Call1("mean", v)),
     Num(1),
     v,
     BinaryExpr("ADD", v, w),
     BinaryExpr("MUL", w, Num(2)),
     BinaryExpr("ADD", Call1("mean", v), v),
     BinaryExpr("ADD", Call("top", <<v, VarRef("host"), Num(2)>>), Num(1)),
     Call1("derivative", Call("top", <<v, VarRef("host"), Num(2)>>)),
     BinaryExpr("ADD", BinaryExpr("ADD", Call1("mean", v), Call1("max", w)), v)}

\* the expressions of a statement with one field
ExprPool == CatalogueCalls \cup FailingCalls \cup OtherExprs

\* the expressions of a statement with several fields
FieldPool ==
    {v, VarRef("zone"), Call1("mean", v), Call1("max", w),
     Call("top", <<v, VarRef("host"), Num(2)>>),
     Call("bottom", <<w, VarRef("region"), Num(2)>>),
     BinaryExpr("ADD", v, StringLiteral("a"))}

Statements ==
    {<<e>> : e \in ExprPool}
    \cup UNION {[1..n -> FieldPool] : n \in 2..MaxFields}

SelectOptions ==
    [Limit : 0..1, Offset : 0..1, Dedupe : BOOLEAN, Interval : {0, 10}, Fill : FillOptions]

\* what the storage does: which ic.CreateIterator call fails (0: none) and
\* whether ic.SeriesKeys fails
Environments == [failAt : 0..MaxFailAt, seriesKeysFail : BOOLEAN]

NoPoint == NilPoint

IdleFn == [typ1 |-> "Unknown", typ2 |-> "Unknown", op |-> "", a |-> NoPoint, b |-> NoPoint]

NoResult == [itrs |-> <<>>, err |-> "", slice |-> <<>>]

NoBuild == [itr |-> NoItr, err |-> "", heap |-> <<>>, fn |-> NilFn]

NoTable == [kind |-> "none"]

Init ==
    /\ stmt \in Statements
    /\ sopt \in SelectOptions
    /\ env \in Environments
    /\ pc = "start"
    /\ ret = NoResult
    /\ heap = <<>>
    /\ log = <<>>
    /\ fin = IdleFn
    /\ fpc = "idle"
    /\ fitr = NoBuild
    /\ fout = NoPoint
    /\ tbl = NoTable

\* what a call of Select leaves: its results, the iterators and the calls made
Returns(r) ==
    /\ ret' = [itrs |-> r.itrs, err |-> r.err, slice |-> r.slice]
    /\ heap' = r.st.heap
    /\ log' = r.st.log

\* the planner runs Select on the statement
CallSelect ==
    /\ pc = "start"
    /\ \E order \in Orders(Len(TopBottomCalls(newSelectInfo(stmt).calls))) :
          Returns(Select(stmt, sopt, order))
    /\ pc' = "done"
    /\ UNCHANGED <<stmt, sopt, env, fin, fpc, fitr, fout, tbl>>

Next == CallSelect

Spec == Init /\ [][Next]_vars

(***************************************************************************)
(* SpecFn: one combining iterator and one call of its fn                   *)
(***************************************************************************)
Metas ==
    {[Name |-> "cpu", Tags |-> "host=a", Time |-> 1, Aux |-> <<>>],
     [Name |-> "mem", Tags |-> "host=b", Time |-> 2, Aux |-> <<7>>]}

IntegerValues == (0 - MaxVal)..MaxVal

FloatValues == {FNorm(n, d) : n \in IntegerValues, d \in 1..2}

\* the points an iterator of the type can yield, nil included
PointsOf(typ) ==
    {NilPoint} \cup
    CASE typ = "Float" -> {Point(m, x, n) : m \in Metas, x \in FloatValues, n \in BOOLEAN}
      [] typ = "Integer" -> {Point(m, x, n) : m \in Metas, x \in IntegerValues, n \in BOOLEAN}
      [] OTHER -> {}

FnInputs ==
    UNION {[typ1 : {t1}, typ2 : {t2}, op : Tokens, a : PointsOf(t1), b : PointsOf(t2)] :
              t1 \in DataTypes, t2 \in DataTypes}

InitFn ==
    /\ fin \in FnInputs
    /\ fpc = "start"
    /\ fitr = NoBuild
    /\ fout = NoPoint
    /\ tbl = NoTable
    /\ stmt = <<>>
    /\ sopt = [Limit |-> 0, Offset |-> 0, Dedupe |-> FALSE, Interval |-> 0, Fill |-> NoFill]
    /\ env = [failAt |-> 0, seriesKeysFail |-> FALSE]
    /\ pc = "idle"
    /\ ret = NoResult
    /\ heap = <<>>
    /\ log = <<>>

\* two leaves of the operand types, iterators 1 and 2
Operands(typ1, typ2) ==
    LET opt == newIteratorOptionsStmt(sopt)
        l == NewItr(EmptyState, "leaf", typ1, <<>>, "", NilFn, NoTags, opt)
    IN  NewItr(l.st, "leaf", typ2, <<>>, "", NilFn, NoTags, opt).st

\* buildTransformIterator over iterators of the two operand types
BuildTransform ==
    /\ fpc = "start"
    /\ LET st == Operands(fin.typ1, fin.typ2)
           r == buildTransformIterator(1, 2, fin.op, newIteratorOptionsStmt(sopt), st)
       IN  /\ fitr' = [itr |-> r.itr, err |-> r.err, heap |-> r.st.heap,
                       fn |-> binaryExprFunc(iteratorDataType(st, 1),
                                             iteratorDataType(st, 2), fin.op)]
           /\ fpc' = IF r.err = "" THEN "built" ELSE "failed"
    /\ UNCHANGED <<stmt, sopt, env, pc, ret, heap, log, fin, fout, tbl>>

\* the point an operand hands to fn: through the cast when the operand was
\* wrapped in an integerFloatCastIterator
Operand(h, itr, p) ==
    IF h[itr].kind = "integerFloatCastIterator" THEN castToFloat(p) ELSE p

\* itr.fn(a, b) of the iterator that was built
exprFn(it, a, b) ==
    CASE it.kind = "floatExprIterator" -> floatExprFn(it.fn, a, b)
      [] it.kind = "integerFloatExprIterator" -> integerFloatExprFn(it.fn, a, b)
      [] it.kind = "integerExprIterator" -> integerExprFn(it.fn, a, b)
      [] it.kind = "floatBooleanExprIterator" -> floatBooleanExprFn(it.fn, a, b)
      [] it.kind = "integerBooleanExprIterator" -> integerBooleanExprFn(it.fn, a, b)

\* the iterator calls its fn on the points of its two operands
CallFn ==
    /\ fpc = "built"
    /\ LET it == fitr.heap[fitr.itr]
       IN  fout' = exprFn(it, Operand(fitr.heap, it.in[1], fin.a),
                          Operand(fitr.heap, it.in[2], fin.b))
    /\ fpc' = "done"
    /\ UNCHANGED <<stmt, sopt, env, pc, ret, heap, log, fin, fitr, tbl>>

NextFn == BuildTransform \/ CallFn

SpecFn == InitFn /\ [][NextFn]_vars

(***************************************************************************)
(* Tables (table.gen.go.tmpl).  tbl holds the fields of one table or group *)
(* table (kind, cur, gc, l, buf, err, done, cancelled, mu), the cursors it *)
(* reads (cursors, gpos, gcClosed, nilNext), and its callers (pc,          *)
(* panicking, stopped, doCalls, closeCalls, fErrAt, fLog, rets, advLog)    *)
(* and the position of the thread that asks for its statistics (spc).      *)
(* Cursor 1 is the one the constructor is given; the group cursor yields   *)
(* the cursors 2, 3, ... in order.                                         *)
(***************************************************************************)
NilCursor == 0

\* the length of the j-th batch of a cursor
BatchLen(j) == j

\* what an operation on the table leaves and returns
Adv(t, r) == [t |-> t, ret |-> r]

\* t.cur.Next(): the next batch of the cursor, empty when it has no more;
\* on a nil cursor the call panics
CursorNext(t) ==
    IF t.cur = NilCursor
    THEN [t |-> [t EXCEPT !.nilNext = @ + 1], len |-> 0, panic |-> TRUE]
    ELSE [t |-> [t EXCEPT !.cursors[t.cur].pos =
                              IF @ < t.cursors[t.cur].n THEN @ + 1 ELSE @,
                          !.cursors[t.cur].misuse =
                              IF t.cursors[t.cur].closed > 0 THEN @ + 1 ELSE @],
          len |-> IF t.cursors[t.cur].pos < t.cursors[t.cur].n
                  THEN BatchLen(t.cursors[t.cur].pos + 1) ELSE 0,
          panic |-> FALSE]

\* cur.Close() of cursor i
CursorClose(t, i) == [t EXCEPT !.cursors[i].closed = @ + 1]

\* the tail of advance: the batch just read is copied into the buffers
LoadBatch(t, len) == [t EXCEPT !.l = len, !.buf = <<t.cur, t.cursors[t.cur].pos>>]

\* (t *Table) advance
TableAdvance(t) ==
    Let(CursorNext(t), LAMBDA a :
        IF a.panic THEN Adv(a.t, "panic")
        ELSE IF a.len = 0 THEN Adv([a.t EXCEPT !.l = 0], "false")
        ELSE Adv(LoadBatch(a.t, a.len), "true"))

ErrCursorType == "expected cursor type, got another"

\* the loop "for t.gc.Next()" of advanceCursor
RECURSIVE NextCursor(_)
NextCursor(t) ==
    IF ~t.gc THEN Adv(t, "panic")
    ELSE IF t.gpos >= Len(t.cursors) THEN Adv(t, "false")
    ELSE CASE t.cursors[t.gpos + 1].kind = "nil" -> NextCursor([t EXCEPT !.gpos = @ + 1])
           [] t.cursors[t.gpos + 1].kind = "other" ->
                Adv([CursorClose(t, t.gpos + 1) EXCEPT !.gpos = @ + 1, !.err = ErrCursorType],
                    "false")
           [] OTHER -> Adv([t EXCEPT !.gpos = @ + 1, !.cur = t.gpos + 1], "true")

\* advanceCursor without the Close of the cursor it leaves
advanceCursorNoClose(t) == NextCursor([t EXCEPT !.cur = NilCursor])

\* (t *GroupTable) advanceCursor
advanceCursor(t) == NextCursor([CursorClose(t, t.cur) EXCEPT !.cur = NilCursor])

\* (t *GroupTable) advance
RECURSIVE GroupTableAdvance(_)
GroupTableAdvance(t) ==
    Let(CursorNext(t), LAMBDA a :
        IF a.panic THEN Adv(a.t, "panic")
        ELSE IF a.len = 0
        THEN Let(advanceCursor([a.t EXCEPT !.l = 0]), LAMBDA c :
                 IF c.ret = "true" THEN GroupTableAdvance(c.t) ELSE c)
        ELSE Adv(LoadBatch(a.t, a.len), "true"))

\* t.advance(); advLog notes what each call returned and left
advance(t) ==
    Let(IF t.kind = "Table" THEN TableAdvance(t) ELSE GroupTableAdvance(t), LAMBDA a :
        Adv([a.t EXCEPT !.advLog = Append(@, [ret |-> a.ret, l |-> a.t.l, buf |-> a.t.buf,
                                              cur |-> a.t.cur, gpos |-> a.t.gpos,
                                              err |-> a.t.err, call |-> t.doCalls,
                                              stopped |-> t.stopped, mu |-> t.mu])],
            a.ret))

\* newTable / newGroupTable: the fields, then t.advance()
NewTable(kind, cursors, fErrAt) ==
    advance([kind |-> kind, cur |-> 1, gc |-> (kind = "GroupTable"), l |-> 0, buf |-> <<>>,
             err |-> "", done |-> "open", cancelled |-> FALSE, mu |-> "",
             cursors |-> cursors, gpos |-> 1, gcClosed |-> 0, nilNext |-> 0,
             pc |-> "idle", panicking |-> FALSE, stopped |-> FALSE, doCalls |-> 0,
             closeCalls |-> 0, fErrAt |-> fErrAt, fLog |-> <<>>, rets |-> <<>>,
             advLog |-> <<>>, spc |-> "idle"]).t

\* (t *Table) Close and (t *GroupTable) Close, between Lock and Unlock
TableClose(t) ==
    Let(IF t.cur # NilCursor THEN [CursorClose(t, t.cur) EXCEPT !.cur = NilCursor] ELSE t,
        LAMBDA c :
            IF t.kind = "GroupTable" /\ c.gc
            THEN [c EXCEPT !.gcClosed = @ + 1, !.gc = FALSE]
            ELSE c)

\* t.Empty(), t.isCancelled(), t.closeDone() of the embedded table
Empty(t) == t.l = 0

isCancelled(t) == t.cancelled

closeDone(t) == IF t.done # "nil" THEN [t EXCEPT !.done = "nil"] ELSE t

ErrF == "f failed"

\* t.err = f(t): fLog notes the batch f is given; the fErrAt-th call of f
\* returns an error
CallF(t) ==
    [t EXCEPT !.fLog = Append(@, [call |-> t.doCalls, batch |-> t.buf, l |-> t.l,
                                  stopped |-> t.stopped, first |-> (t.pc = "first"),
                                  cancelled |-> t.cancelled]),
              !.err = IF Len(t.fLog) + 1 = t.fErrAt THEN ErrF ELSE "",
              !.stopped = (Len(t.fLog) + 1 = t.fErrAt)]

\* DoArrow up to the first call of f: Lock, the deferred function is set,
\* and f sees the batch the constructor buffered unless the table is empty
DoArrowLock(t) == [t EXCEPT !.mu = "Do", !.pc = "first", !.doCalls = @ + 1, !.stopped = FALSE]

DoArrowFirst(t) ==
    IF ~Empty(t) THEN [CallF(t) EXCEPT !.pc = "loop"] ELSE [t EXCEPT !.pc = "defer"]

\* the loop of DoArrow without the test of t.err
DoArrowLoopIgnoresErr(t) ==
    IF ~isCancelled(t)
    THEN Let(advance(t), LAMBDA a :
             CASE a.ret = "true" -> [CallF(a.t) EXCEPT !.pc = "loop"]
               [] a.ret = "false" -> [a.t EXCEPT !.pc = "defer"]
               [] OTHER -> [a.t EXCEPT !.pc = "defer", !.panicking = TRUE])
    ELSE [t EXCEPT !.pc = "defer", !.stopped = TRUE]

\* one test of "for !t.isCancelled() && t.err == nil && t.advance()" and the
\* body it guards
DoArrowLoop(t) ==
    IF ~isCancelled(t) /\ t.err = ""
    THEN Let(advance(t), LAMBDA a :
             CASE a.ret = "true" -> [CallF(a.t) EXCEPT !.pc = "loop"]
               [] a.ret = "false" -> [a.t EXCEPT !.pc = "defer"]
               [] OTHER -> [a.t EXCEPT !.pc = "defer", !.panicking = TRUE])
    ELSE [t EXCEPT !.pc = "defer", !.stopped = TRUE]

\* the deferred function of DoArrow: t.closeDone(), then t.mu.Unlock(); the
\* call then returns t.err, or goes on unwinding
DoArrowDeferDone(t) == [closeDone(t) EXCEPT !.pc = "unlock"]

DoArrowDeferUnlock(t) ==
    IF t.panicking
    THEN [t EXCEPT !.mu = "", !.pc = "panicked"]
    ELSE [t EXCEPT !.mu = "", !.pc = "idle", !.rets = Append(@, t.err)]

\* (t *Table) Statistics: t.mu.Lock(), and then the read of t.cur, Stats of
\* a cursor that is not nil, and the deferred Unlock
TableStatisticsLock(t) == [t EXCEPT !.mu = "Statistics", !.spc = "stats"]

TableStatistics(t) == [t EXCEPT !.mu = "", !.spc = "idle"]

\* (t *GroupTable) Statistics: the test t.cur == nil, which returns for a nil
\* cursor, and then t.cur.Stats(), a second read of t.cur, which panics when
\* the cursor is nil by now
GroupTableStatisticsTest(t) ==
    [t EXCEPT !.spc = IF t.cur = NilCursor THEN "idle" ELSE "stats"]

GroupTableStatisticsStats(t) ==
    [t EXCEPT !.spc = IF t.cur = NilCursor THEN "panicked" ELSE "idle"]

\* table.Cancel
Cancel(t) == [t EXCEPT !.cancelled = TRUE]

\* the cursors a table is built over
TypedCursors == {[kind |-> "typed", n |-> n, pos |-> 0, closed |-> 0, misuse |-> 0] :
                     n \in 0..MaxBatches}

GroupEntries ==
    TypedCursors \cup {[kind |-> k, n |-> 0, pos |-> 0, closed |-> 0, misuse |-> 0] :
                           k \in {"nil", "other"}}

GroupCursors == UNION {[1..n -> GroupEntries] : n \in 0..MaxCursors}

TableInputs ==
    {NewTable("Table", <<c>>, e) : c \in TypedCursors, e \in 0..MaxBatches}
    \cup {NewTable("GroupTable", <<c>> \o g, e) :
              c \in TypedCursors, g \in GroupCursors, e \in 0..MaxBatches}

InitTable ==
    /\ tbl \in TableInputs
    /\ stmt = <<>>
    /\ sopt = [Limit |-> 0, Offset |-> 0, Dedupe |-> FALSE, Interval |-> 0, Fill |-> NoFill]
    /\ env = [failAt |-> 0, seriesKeysFail |-> FALSE]
    /\ pc = "idle"
    /\ ret = NoResult
    /\ heap = <<>>
    /\ log = <<>>
    /\ fin = IdleFn
    /\ fpc = "idle"
    /\ fitr = NoBuild
    /\ fout = NoPoint

DoLock ==
    /\ tbl.pc = "idle" /\ tbl.mu = "" /\ tbl.doCalls < MaxDo
    /\ tbl' = DoArrowLock(tbl)
    /\ UNCHANGED <<stmt, sopt, env, pc, ret, heap, log, fin, fpc, fitr, fout>>

DoFirst ==
    /\ tbl.pc = "first"
    /\ tbl' = DoArrowFirst(tbl)
    /\ UNCHANGED <<stmt, sopt, env, pc, ret, heap, log, fin, fpc, fitr, fout>>

DoLoop ==
    /\ tbl.pc = "loop"
    /\ tbl' = DoArrowLoop(tbl)
    /\ UNCHANGED <<stmt, sopt, env, pc, ret, heap, log, fin, fpc, fitr, fout>>

DoDeferDone ==
    /\ tbl.pc = "defer"
    /\ tbl' = DoArrowDeferDone(tbl)
    /\ UNCHANGED <<stmt, sopt, env, pc, ret, heap, log, fin, fpc, fitr, fout>>

DoDeferUnlock ==
    /\ tbl.pc = "unlock"
    /\ tbl' = DoArrowDeferUnlock(tbl)
    /\ UNCHANGED <<stmt, sopt, env, pc, ret, heap, log, fin, fpc, fitr, fout>>

\* Close waits for the mutex, so it runs between the calls of DoArrow
CallClose ==
    /\ tbl.mu = "" /\ tbl.closeCalls < MaxClose
    /\ tbl' = [TableClose(tbl) EXCEPT !.closeCalls = @ + 1]
    /\ UNCHANGED <<stmt, sopt, env, pc, ret, heap, log, fin, fpc, fitr, fout>>

CallCancel ==
    /\ ~tbl.cancelled
    /\ tbl' = Cancel(tbl)
    /\ UNCHANGED <<stmt, sopt, env, pc, ret, heap, log, fin, fpc, fitr, fout>>

\* Table.Statistics takes the mutex; GroupTable.Statistics takes none, and
\* its two reads of t.cur run whenever its thread is scheduled
StatLock ==
    /\ tbl.kind = "Table" /\ tbl.spc = "idle" /\ tbl.mu = ""
    /\ tbl' = TableStatisticsLock(tbl)
    /\ UNCHANGED <<stmt, sopt, env, pc, ret, heap, log, fin, fpc, fitr, fout>>

StatUnlock ==
    /\ tbl.kind = "Table" /\ tbl.spc = "stats"
    /\ tbl' = TableStatistics(tbl)
    /\ UNCHANGED <<stmt, sopt, env, pc, ret, heap, log, fin, fpc, fitr, fout>>

StatTest ==
    /\ tbl.kind = "GroupTable" /\ tbl.spc = "idle"
    /\ tbl' = GroupTableStatisticsTest(tbl)
    /\ UNCHANGED <<stmt, sopt, env, pc, ret, heap, log, fin, fpc, fitr, fout>>

StatStats ==
    /\ tbl.kind = "GroupTable" /\ tbl.spc = "stats"
    /\ tbl' = GroupTableStatisticsStats(tbl)
    /\ UNCHANGED <<stmt, sopt, env, pc, ret, heap, log, fin, fpc, fitr, fout>>

NextTable ==
    \/ DoLock \/ DoFirst \/ DoLoop \/ DoDeferDone \/ DoDeferUnlock
    \/ CallClose \/ CallCancel
    \/ StatLock \/ StatUnlock \/ StatTest \/ StatStats

SpecTable == InitTable /\ [][NextTable]_vars

(***************************************************************************)
(* Properties of Spec                                                      *)
(***************************************************************************)
Returned == pc = "done"

Failed == Returned /\ ret.err # "" /\ ret.err # PanicUnreachable

Info == newSelectInfo(stmt)

\* which of the two pipelines Select takes for the statement
UsesAuxPipeline == ~rejects(Info) /\ Len(Info.calls) = 0 /\ Len(Info.refs) > 0

UsesFieldPipeline == ~rejects(Info) /\ ~UsesAuxPipeline

Events(e) == {i \in 1..Len(log) : log[i].ev = e}

\* C1: Select returns "cannot select fields when selecting multiple
\* aggregates" exactly when the projection has more than one call and at
\* least one raw field reference; then nothing was asked of the
\* IteratorCreator and no iterator exists.
C1_MultipleAggregates ==
    Returned =>
        /\ (ret.err = ErrMultipleAggregates) <=> (Len(Info.calls) > 1 /\ Len(Info.refs) > 0)
        /\ ret.err = ErrMultipleAggregates =>
              /\ Events("CreateIterator") = {}
              /\ Events("SeriesKeys") = {}
              /\ heap = <<>>
              /\ ret.itrs = <<>>

\* a statement with two calls and a raw field was rejected
C1_Witness ==
    /\ Returned
    /\ Len(Info.calls) > 1
    /\ Len(Info.refs) > 0
    /\ ret.err = ErrMultipleAggregates

\* C2: when buildFieldIterators fails, every non-nil iterator its result
\* slice holds at that moment is closed, and it returns no iterators with
\* the error.
C2_FieldFailureClosesSlice ==
    (Failed /\ UsesFieldPipeline) =>
        /\ \A i \in 1..Len(ret.slice) : ret.slice[i] # NoItr => heap[ret.slice[i]].closed
        /\ ret.itrs = <<>>

\* buildFieldIterators failed in its second pass, with the aux iterator and
\* a deferred field's slot still nil in the slice
C2_Witness ==
    /\ Failed
    /\ UsesFieldPipeline
    /\ Events("NewAuxIterator") # {}
    /\ \E i, j \in 1..Len(ret.slice) :
          /\ ret.slice[i] # NoItr
          /\ heap[ret.slice[i]].kind = "aux"
          /\ ret.slice[j] = NoItr

\* an iterator that is closed, or a handle of a closed aux iterator
Released(i) ==
    \/ heap[i].closed
    \/ heap[i].kind = "auxHandle" /\ heap[heap[i].src].closed

\* C3: whenever Select returns an error, every iterator constructed during
\* the call has been closed.
C3_ErrorClosesEverything == Failed => \A i \in 1..Len(heap) : Released(i)

\* the successful returns of the Call case of buildExprIterator
BuiltCalls == Events("BuiltCall")

\* the iterator returned for a call sits directly on an interval iterator:
\* it is one, or it is the fill iterator over one
IntervalWrapped(itr) ==
    \/ heap[itr].kind = "interval"
    \/ heap[itr].kind = "fill" /\ heap[heap[itr].in[1]].kind = "interval"

FillWrapped(itr) == heap[itr].kind = "fill"

Derivatives == {"derivative", "non_negative_derivative"}

\* C9 as claimed: every call built is wrapped in an interval iterator
\* unless it is top or bottom, and top and bottom never are.
C9_IntervalUnlessTopBottom ==
    Returned =>
        \A e \in BuiltCalls :
            IntervalWrapped(log[e].itr) <=> log[e].name \notin {"top", "bottom"}

\* C9 amended: every call built is wrapped in an interval iterator unless
\* it is top, bottom, derivative or non_negative_derivative, and the
\* iterators of these four never are.
C9_IntervalUnlessSelectorOrDerivative ==
    Returned =>
        \A e \in BuiltCalls :
            IntervalWrapped(log[e].itr) <=>
                log[e].name \notin {"top", "bottom"} \cup Derivatives

\* a derivative over a mean was built: the mean under an interval iterator,
\* the derivative without one; and a top was built without one
C9_Witness ==
    /\ Returned
    /\ ret.err = ""
    /\ \E d, m \in BuiltCalls :
          /\ log[d].name = "derivative"
          /\ ~IntervalWrapped(log[d].itr)
          /\ log[m].name = "mean"
          /\ IntervalWrapped(log[m].itr)

\* C10 as claimed: the iterator of a call is wrapped in a fill iterator
\* exactly when the interval is non-zero and the fill policy is not NoFill,
\* for every call.
C10_FillIffIntervalAndPolicy ==
    Returned =>
        \A e \in BuiltCalls :
            FillWrapped(log[e].itr) <=> (sopt.Interval # 0 /\ sopt.Fill # NoFill)

\* C10 amended: the same for every call other than distinct, derivative
\* and non_negative_derivative, whose iterators never get the fill wrapper;
\* and with a zero interval no fill iterator is created at all.
C10_FillUnlessDistinctOrDerivative ==
    Returned =>
        /\ \A e \in BuiltCalls :
              FillWrapped(log[e].itr) <=>
                  /\ sopt.Interval # 0
                  /\ sopt.Fill # NoFill
                  /\ log[e].name \notin {"distinct"} \cup Derivatives
        /\ sopt.Interval = 0 => \A i \in 1..Len(heap) : heap[i].kind # "fill"

\* with an interval and a fill policy, count(distinct(v)) was built: the
\* count under a fill iterator, the distinct without one
C10_Witness ==
    /\ Returned
    /\ ret.err = ""
    /\ sopt.Interval # 0
    /\ sopt.Fill # NoFill
    /\ \E d, c \in BuiltCalls :
          /\ log[d].name = "distinct"
          /\ ~FillWrapped(log[d].itr)
          /\ log[c].name = "count"
          /\ FillWrapped(log[c].itr)

\* the single field of the statement as Select builds it
Field1 == Reduce(stmt[1])

\* a statement of one field that is a BinaryExpr over calls, raw fields and
\* literals
OneBinary ==
    /\ Len(stmt) = 1
    /\ Field1.k = "BinaryExpr"
    /\ Field1.lhs.k \notin {"BinaryExpr", "ParenExpr"}
    /\ Field1.rhs.k \notin {"BinaryExpr", "ParenExpr"}

\* where the log notes that the operand x of the field was built
BuiltOperand(x) ==
    CASE x.k = "Call" -> {i \in BuiltCalls : log[i].name = x.name}
      [] x.k = "VarRef" -> {i \in Events("AuxHandle") : log[i].name = x.val}
      [] OTHER -> {}

Transforms == Events("Transform")

\* the dispatch of the BinaryExpr case; twoLiterals is the error of two
\* literals
Dispatch(twoLiterals) ==
    (Returned /\ OneBinary) =>
        CASE IsLiteral(Field1.lhs) /\ IsLiteral(Field1.rhs) ->
                /\ ret.err = twoLiterals
                /\ heap = <<>>
                /\ Transforms = {}
          [] IsLiteral(Field1.rhs) ->
                /\ \A t \in Transforms : log[t].name = "RHS"
                /\ \A b \in BuiltOperand(Field1.lhs) :
                      \E t \in Transforms : t > b /\ log[t].aux = <<log[b].itr>>
          [] IsLiteral(Field1.lhs) ->
                /\ \A t \in Transforms : log[t].name = "LHS"
                /\ \A b \in BuiltOperand(Field1.rhs) :
                      \E t \in Transforms : t > b /\ log[t].aux = <<log[b].itr>>
          [] OTHER ->
                /\ \A t \in Transforms : log[t].name = "Both"
                /\ \A r \in BuiltOperand(Field1.rhs) :
                      \E l \in BuiltOperand(Field1.lhs), t \in Transforms :
                          l < r /\ r < t /\ log[t].aux = <<log[l].itr, log[r].itr>>

\* C11 as claimed: the dispatch, with the error text "unable to construct
\* iterator from two literals" when both operands are literals.
C11_DispatchOnLiterals == Dispatch("unable to construct iterator from two literals")

\* C11 amended: for a BinaryExpr, only the right operand a literal: the left
\* is built and buildRHSTransformIterator is called on it; only the left a
\* literal: the right is built and buildLHSTransformIterator is called on
\* it; neither: the left is built, then the right, and
\* buildTransformIterator is called on the two; both: the error "unable to
\* construct an iterator from two literals: LHS: <type>, RHS: <type>" is
\* returned and no iterator is created.
C11_DispatchOnLiteralsMessage ==
    Dispatch(IF OneBinary THEN ErrTwoLiterals(Field1.lhs, Field1.rhs) ELSE "")

\* neither operand a literal: both were built, the left first, and
\* buildTransformIterator was called on the two
C11_Witness ==
    /\ Returned
    /\ OneBinary
    /\ ~IsLiteral(Field1.lhs)
    /\ ~IsLiteral(Field1.rhs)
    /\ \E l \in BuiltOperand(Field1.lhs), r \in BuiltOperand(Field1.rhs), t \in Transforms :
          l < r /\ r < t /\ log[t].name = "Both"

\* the top and bottom calls of a field, outside every other call
FieldSelectors(f) == TopBottomCalls(Nodes(f, "Call"))

RECURSIVE InteriorOf(_)
InteriorOf(calls) ==
    IF calls = <<>> THEN <<>> ELSE interiorArgs(Head(calls)) \o InteriorOf(Tail(calls))

\* the projection with the implicit fields: each field, followed by the
\* interior arguments of its top and bottom calls
RECURSIVE Projection(_)
Projection(fields) ==
    IF fields = <<>> THEN <<>>
    ELSE <<[implicit |-> FALSE, expr |-> Head(fields)]>>
         \o [j \in 1..Len(InteriorOf(FieldSelectors(Head(fields)))) |->
                [implicit |-> TRUE, expr |-> InteriorOf(FieldSelectors(Head(fields)))[j]]]
         \o Projection(Tail(fields))

\* the iterator under the limit iterator, if itr is one
Unlimited(itr) ==
    IF heap[itr].kind = "limit" /\ heap[itr].in # <<>> THEN heap[itr].in[1] ELSE itr

\* C12: on success Select returns one iterator per field of the projection
\* with the implicit fields: len(stmt.Fields) plus the interior arguments of
\* every top and bottom call, each interior argument's iterator right after
\* its call's.
C12_OnePerProjectedField ==
    (Returned /\ ret.err = "") =>
        /\ Len(ret.itrs) = Len(Projection(stmt))
        /\ \A j \in 1..Len(ret.itrs) :
              Projection(stmt)[j].implicit =>
                  /\ ret.itrs[j] # NoItr
                  /\ heap[Unlimited(ret.itrs[j])].kind = "auxHandle"
                  /\ heap[Unlimited(ret.itrs[j])].name = Projection(stmt)[j].expr.val

\* ascending in the order of sort.Strings, no name twice
SortedUnique(a) == \A j \in 1..(Len(a) - 1) : NameRank(a[j]) < NameRank(a[j + 1])

\* the calls that are handed the options of Select
OptionCalls == Events("CreateIterator") \cup Events("SeriesKeys") \cup Events("NewAuxIterator")

\* C13: the Aux list of the options Select hands to the builders, and so to
\* every ic.CreateIterator, ic.SeriesKeys and NewAuxIterator call, is
\* sorted ascending and holds no name twice.
C13_AuxSortedUnique == Returned => \A e \in OptionCalls : SortedUnique(log[e].aux)

\* the top or bottom iterator of a call built: the iterator returned for
\* the call, or the one under its fill iterator
Selector(itr) == IF heap[itr].kind = "fill" THEN heap[itr].in[1] ELSE itr

\* the index list given to the constructor names the interior arguments:
\* tags are positions (from 0) in the Aux of the options, names the names
\* of the interior arguments
TagsName(it, names) ==
    /\ Len(it.tags) = Len(names)
    /\ \A j \in 1..Len(names) :
          /\ it.tags[j] + 1 \in 1..Len(it.aux)
          /\ it.aux[it.tags[j] + 1] = names[j]

\* C14: the index list handed to newTopIterator / newBottomIterator has one
\* entry per interior argument, in argument order, each a position of
\* opt.Aux holding that argument's name; and a top or bottom call with
\* fewer than 2 arguments is rejected with "requires 2 or more arguments"
\* before any iterator is created.
C14_TagIndexes ==
    Returned =>
        /\ \A e \in BuiltCalls :
              log[e].name \in {"top", "bottom"} =>
                  TagsName(heap[Selector(log[e].itr)], log[e].aux)
        /\ (Len(stmt) = 1 /\ IsTopBottom(stmt[1]) /\ Len(stmt[1].args) < 2) =>
              /\ ret.err = ErrTooFewArguments(stmt[1])
              /\ heap = <<>>

\* the kinds of the iterators from itr down its first input to a source
RECURSIVE KindsBelow(_)
KindsBelow(itr) ==
    <<heap[itr].kind>> \o (IF heap[itr].in = <<>> THEN <<>> ELSE KindsBelow(heap[itr].in[1]))

\* the iterators without input that itr reads from
RECURSIVE Sources(_)
Sources(itr) ==
    IF heap[itr].in = <<>> THEN {itr}
    ELSE UNION {Sources(heap[itr].in[j]) : j \in 1..Len(heap[itr].in)}

AuxIterators == {i \in 1..Len(heap) : heap[i].kind = "aux"}

\* the upstream of the aux pipeline as claimed, from the aux iterator down
AuxUpstream ==
    <<"aux">> \o (IF sopt.Limit > 0 \/ sopt.Offset > 0 THEN <<"limit">> ELSE <<>>)
        \o (IF sopt.Dedupe THEN <<"dedupe">> ELSE <<>>) \o <<"leaf">>

\* C15: a projection without calls and with a raw field goes through the
\* aux pipeline: ic.CreateIterator is called exactly once; its iterator is
\* wrapped by a dedupe iterator iff opt.Dedupe, then by a limit iterator
\* iff Limit > 0 or Offset > 0, then handed to the one aux iterator, and
\* every iterator returned reads from that aux iterator only.
C15_AuxPipeline ==
    (Returned /\ Len(Info.calls) = 0 /\ Len(Info.refs) > 0) =>
        /\ Cardinality(Events("CreateIterator")) = 1
        /\ ret.err = "" =>
              /\ Cardinality(AuxIterators) = 1
              /\ \A a \in AuxIterators :
                    /\ KindsBelow(a) = AuxUpstream
                    /\ Len(ret.itrs) = Len(stmt)
                    /\ \A j \in 1..Len(ret.itrs) :
                          /\ ret.itrs[j] # NoItr
                          /\ \A x \in Sources(ret.itrs[j]) :
                                heap[x].kind = "auxHandle" /\ heap[x].src = a

\* two raw fields were selected with dedupe and a limit: one CreateIterator
\* call, and the aux iterator over limit over dedupe over the leaf
C15_Witness ==
    /\ Returned
    /\ ret.err = ""
    /\ Len(Info.calls) = 0
    /\ Len(stmt) = 2
    /\ sopt.Dedupe
    /\ sopt.Limit > 0
    /\ \E a \in AuxIterators : KindsBelow(a) = <<"aux", "limit", "dedupe", "leaf">>
    /\ Cardinality({ret.itrs[j] : j \in 1..Len(ret.itrs)}) = 2

\* the iterators itr reads from, itself included: its inputs and, for a
\* handle of an aux iterator, that aux iterator
RECURSIVE Upstream(_)
Upstream(itr) ==
    {itr}
        \cup UNION {Upstream(heap[itr].in[j]) : j \in 1..Len(heap[itr].in)}
        \cup (IF heap[itr].src # NoItr THEN Upstream(heap[itr].src) ELSE {})

\* the limit iterators the stream of itr passes through
Limits(itr) == {x \in Upstream(itr) : heap[x].kind = "limit"}

\* C16: in the field pipeline every iterator returned is a limit iterator,
\* the only one its stream passes through, when Limit > 0 or Offset > 0,
\* and passes through no limit iterator when both are 0.
C16_OneLimitWrapper ==
    (Returned /\ UsesFieldPipeline /\ ret.err = "") =>
        \A j \in 1..Len(ret.itrs) :
            ret.itrs[j] # NoItr =>
                IF sopt.Limit > 0 \/ sopt.Offset > 0
                THEN heap[ret.itrs[j]].kind = "limit" /\ Limits(ret.itrs[j]) = {ret.itrs[j]}
                ELSE Limits(ret.itrs[j]) = {}

\* with an offset and no limit, a top call with a tag was selected: the
\* aux iterator and the handle of the tag each under a limit iterator
C16_Witness ==
    /\ Returned
    /\ UsesFieldPipeline
    /\ ret.err = ""
    /\ sopt.Limit = 0
    /\ sopt.Offset > 0
    /\ \E j, k \in 1..Len(ret.itrs) :
          /\ ret.itrs[j] # ret.itrs[k]
          /\ heap[ret.itrs[j]].kind = "limit"
          /\ heap[ret.itrs[k]].kind = "limit"
          /\ heap[ret.itrs[k]].in # <<>>
          /\ heap[heap[ret.itrs[k]].in[1]].kind = "auxHandle"

\* the calls that put an aux iterator in motion
Motions == Events("Start") \cup Events("Background")

\* the fields buildFieldIterators is given: the projection, rebuilt when a
\* top or bottom call has interior arguments
PlannedFields == IF InteriorOf(TopBottomCalls(Info.calls)) # <<>> THEN rebuildFields(stmt) ELSE stmt

\* C17: the aux iterator is put in motion exactly once, by Start in the
\* field pipeline and by Background in the aux pipeline, after every
\* field has its iterator and every iterator built against the aux
\* iterator exists; never when construction fails; and the field pipeline
\* makes an aux iterator only when a field was deferred and an iterator
\* already built serves as its input.
C17_MotionOnceAfterAll ==
    Returned =>
        /\ Cardinality(AuxIterators) <= 1
        /\ Cardinality(Motions) = IF ret.err = "" /\ AuxIterators # {} THEN 1 ELSE 0
        /\ UsesFieldPipeline => Events("Background") = {}
        /\ UsesAuxPipeline => Events("Start") = {}
        /\ \A e \in Motions :
              /\ log[e].itr \in AuxIterators
              /\ \A j \in 1..Len(ret.slice) :
                    ret.slice[j] # NoItr /\ ret.slice[j] <= log[e].aux[1]
              /\ \A x \in 1..Len(heap) :
                    (heap[x].kind # "limit" /\ log[e].itr \in Upstream(x)) =>
                        x <= log[e].aux[1]
        /\ (UsesFieldPipeline /\ AuxIterators # {}) =>
              /\ \E j \in 1..Len(PlannedFields) : ContainsVarRef(PlannedFields[j])
              /\ \A a \in AuxIterators :
                    /\ heap[a].in # <<>>
                    /\ heap[a].in[1] # NoItr
                    /\ heap[a].in[1] < a

\* the field pipeline built a deferred field against the aux iterator and
\* then called Start
C17_Witness ==
    /\ Returned
    /\ UsesFieldPipeline
    /\ ret.err = ""
    /\ Cardinality(Events("Start")) = 1
    /\ \E e \in Events("Start"), h \in Events("AuxHandle") :
          h < e /\ heap[log[h].itr].src = log[e].itr

\* C22: whenever Select returns without error, every element of the slice
\* it returns is a non-nil iterator: no projected field is left unbuilt,
\* also when every projected field contains a raw field reference (pass 1 of
\* buildFieldIterators builds nothing and the aux iterator has no input),
\* and NewLimitIterator is never given a nil element.
C22_NoNilIterator ==
    (Returned /\ ret.err = "") =>
        /\ \A j \in 1..Len(ret.itrs) : ret.itrs[j] # NoItr
        /\ \A x \in 1..Len(heap) : heap[x].kind = "limit" => heap[x].name # "nil"

(***************************************************************************)
(* Properties of SpecFn                                                    *)
(***************************************************************************)
Called == fpc = "done"

BuiltItr == fitr.heap[fitr.itr]

\* the zero value of the type of the points the built iterator emits
ZeroOfResult ==
    CASE BuiltItr.typ = "Float" -> FZero
      [] BuiltItr.typ = "Integer" -> 0
      [] BuiltItr.typ = "Boolean" -> FALSE

SameMeta(p, q) ==
    /\ p.Name = q.Name
    /\ p.Tags = q.Tags
    /\ p.Time = q.Time
    /\ p.Aux = q.Aux

\* the value fn receives for an operand value x of an iterator of type typ:
\* an integer operand of a float-family function goes through the cast
FnArg(typ, x) == IF typ = "Integer" /\ fitr.fn.family = "float" THEN ToFloat(x) ELSE x

\* q is the float64 n/d, stated without the model's division
IsQuotient(q, n, d) == q[2] > 0 /\ q[1] * d[1] * n[2] = q[2] * n[1] * d[2]

AsFloat(typ, x) == IF typ = "Integer" THEN ToFloat(x) ELSE x

\* C4: with exactly one operand point absent, the combining function
\* returns, without failing, a point with the present side's Name, Tags,
\* Time and Aux, Nil = TRUE and the zero Value of the result type, whichever
\* side is absent.
C4_AbsentOperand ==
    (Called /\ (fin.a = NilPoint) # (fin.b = NilPoint)) =>
        LET present == IF fin.a = NilPoint THEN fin.b ELSE fin.a
        IN  /\ fout # Panic
            /\ SameMeta(fout, present)
            /\ fout.Nil = TRUE
            /\ fout.Value = ZeroOfResult

\* C5: with both operand points present, the output is Nil when either
\* operand is Nil, and then fn was not applied (the in-place functions
\* return the Nil operand as it is, the others a zero Value); otherwise
\* the output is not Nil and its Value is fn(left.Value, right.Value).
C5_NullPropagation ==
    (Called /\ fin.a # NilPoint /\ fin.b # NilPoint) =>
        LET l == FnArg(fin.typ1, fin.a.Value)
            r == FnArg(fin.typ2, fin.b.Value)
        IN  IF fin.a.Nil \/ fin.b.Nil
            THEN /\ fout # Panic
                 /\ fout.Nil = TRUE
                 /\ IF BuiltItr.kind \in {"floatExprIterator", "integerExprIterator"}
                    THEN fout.Value = IF fin.a.Nil THEN l ELSE r
                    ELSE fout.Value = ZeroOfResult
            ELSE /\ fout # Panic
                 /\ fout.Nil = FALSE
                 /\ fout.Value = ApplyFn(fitr.fn, l, r)

\* the right operand was Nil and the left was not, under a subtraction
C5_Witness ==
    /\ Called
    /\ fin.a # NilPoint
    /\ fin.b # NilPoint
    /\ ~fin.a.Nil
    /\ fin.b.Nil
    /\ fin.op = "SUB"
    /\ fout.Nil = TRUE

\* C6: binaryExprFunc gives the function of the float family whenever
\* either type is Float, whatever the operator and the other type.
C6_FloatFamily ==
    (fpc # "start" /\ (fin.typ1 = "Float" \/ fin.typ2 = "Float")) =>
        fitr.fn = floatBinaryExprFunc(fin.op)

\* C7: over two Integer operands + - * have an int64 function and build an
\* integer iterator, / has a float64 function and builds a float iterator
\* whose value for a non-zero divisor is float(lhs)/float(rhs), and the
\* comparisons have a boolean function and build a boolean iterator; none
\* of them fails to build.
C7_IntegerFamily ==
    (fpc # "start" /\ fin.typ1 = "Integer" /\ fin.typ2 = "Integer"
        /\ fin.op \in ArithOps \cup CompareOps) =>
        /\ fitr.err = ""
        /\ fitr.fn.typ = CASE fin.op \in {"ADD", "SUB", "MUL"} -> IItoI
                           [] fin.op = "DIV" -> IItoF
                           [] OTHER -> IItoB
        /\ BuiltItr.typ = CASE fin.op \in {"ADD", "SUB", "MUL"} -> "Integer"
                            [] fin.op = "DIV" -> "Float"
                            [] OTHER -> "Boolean"
        /\ BuiltItr.kind = CASE fin.op \in {"ADD", "SUB", "MUL"} -> "integerExprIterator"
                             [] fin.op = "DIV" -> "integerFloatExprIterator"
                             [] OTHER -> "integerBooleanExprIterator"
        /\ (Called /\ fin.op = "DIV" /\ fin.a # NilPoint /\ fin.b # NilPoint
               /\ ~fin.a.Nil /\ ~fin.b.Nil /\ fin.b.Value # 0) =>
              IsQuotient(fout.Value, ToFloat(fin.a.Value), ToFloat(fin.b.Value))

\* 1 / 2 over two integer operands gave the float 0.5
C7_Witness ==
    /\ Called
    /\ fin.typ1 = "Integer"
    /\ fin.typ2 = "Integer"
    /\ fin.op = "DIV"
    /\ fin.a # NilPoint
    /\ fin.b # NilPoint
    /\ ~fin.a.Nil
    /\ ~fin.b.Nil
    /\ fin.a.Value = 1
    /\ fin.b.Value = 2
    /\ fout.Value = <<1, 2>>

\* C8: a division builds for every pair of numeric operand types and, on
\* two values, returns 0 when the right one is zero, whatever the left
\* one, and lhs / rhs otherwise; it never fails.
C8_DivisionByZero ==
    (fpc # "start" /\ fin.op = "DIV" /\ {fin.typ1, fin.typ2} \subseteq {"Float", "Integer"}) =>
        /\ fitr.err = ""
        /\ BuiltItr.typ = "Float"
        /\ (Called /\ fin.a # NilPoint /\ fin.b # NilPoint /\ ~fin.a.Nil /\ ~fin.b.Nil) =>
              /\ fout # Panic
              /\ fout.Nil = FALSE
              /\ IF AsFloat(fin.typ2, fin.b.Value) = FZero
                 THEN fout.Value = FZero
                 ELSE IsQuotient(fout.Value, AsFloat(fin.typ1, fin.a.Value),
                                 AsFloat(fin.typ2, fin.b.Value))

\* 0 / 0 over two float operands gave 0
C8_Witness ==
    /\ Called
    /\ fin.op = "DIV"
    /\ fin.typ1 = "Float"
    /\ fin.typ2 = "Float"
    /\ fin.a # NilPoint
    /\ fin.b # NilPoint
    /\ ~fin.a.Nil
    /\ ~fin.b.Nil
    /\ fin.a.Value = FZero
    /\ fin.b.Value = FZero
    /\ fout.Value = FZero

(***************************************************************************)
(* Properties of SpecTable                                                 *)
(***************************************************************************)
IsGroupTable == tbl.kind = "GroupTable"

\* the cursors before cursor i were left behind: the typed ones drained and
\* closed, the nil ones never touched
LeftBehind(i) ==
    \A j \in 1..(i - 1) :
        IF tbl.cursors[j].kind = "typed"
        THEN tbl.cursors[j].closed = 1 /\ tbl.cursors[j].pos = tbl.cursors[j].n
        ELSE tbl.cursors[j].kind = "nil" /\ tbl.cursors[j].closed = 0

\* advance returned true: a non-empty batch of the current cursor is loaded,
\* and every cursor before it was closed on its empty batch
ReturnedTrue(e) ==
    /\ e.l > 0
    /\ e.cur # NilCursor
    /\ tbl.cursors[e.cur].kind = "typed"
    /\ e.buf[1] = e.cur
    /\ e.l = BatchLen(e.buf[2])
    /\ e.gpos = e.cur
    /\ LeftBehind(e.cur)

\* advance returned false: the group is exhausted, or the cursor it met last
\* has the wrong type, is closed, and the table carries the error
ReturnedFalse(e) ==
    /\ e.l = 0
    /\ e.cur = NilCursor
    /\ IF tbl.cursors[e.gpos].kind = "other"
       THEN /\ tbl.cursors[e.gpos].closed = 1
            /\ e.err = ErrCursorType
            /\ LeftBehind(e.gpos)
       ELSE /\ e.gpos = Len(tbl.cursors)
            /\ e.err = ""
            /\ LeftBehind(e.gpos + 1)

\* C18: the group table's advance, on an empty batch, closes the current
\* cursor and takes the next non-nil cursor of the group until a batch is
\* non-empty or the group is exhausted; every call on a finite group ends;
\* it returns true only with a non-empty batch loaded from the current
\* cursor, and false only when the group cursor is exhausted or a cursor of
\* the wrong type is met, which is then closed with an error on the table.
C18_GroupAdvance ==
    IsGroupTable =>
        \A k \in 1..Len(tbl.advLog) :
            /\ tbl.advLog[k].ret = "true" => ReturnedTrue(tbl.advLog[k])
            /\ tbl.advLog[k].ret = "false" => ReturnedFalse(tbl.advLog[k])

\* a group table that skipped an empty cursor and a nil cursor to load a
\* batch of the third, and whose next advance found the group exhausted
C18_Witness ==
    /\ IsGroupTable
    /\ Len(tbl.cursors) = 3
    /\ tbl.cursors[2].kind = "nil"
    /\ Len(tbl.advLog) = 2
    /\ tbl.advLog[1].ret = "true" /\ tbl.advLog[1].cur = 3
    /\ tbl.advLog[2].ret = "false" /\ tbl.advLog[2].err = ""

\* C19: whatever the sequence of Close, Do / DoArrow and advance on a table
\* or group table, each cursor is closed at most once, and Next is never
\* called on a cursor that is nil or already closed: Close may be repeated,
\* and DoArrow after Close or after the group is exhausted touches no
\* released cursor.
C19_CursorsUsedSafely ==
    /\ \A i \in 1..Len(tbl.cursors) :
           tbl.cursors[i].closed <= 1 /\ tbl.cursors[i].misuse = 0
    /\ tbl.gcClosed <= 1
    /\ tbl.nilNext = 0

\* batch a comes before batch b in cursor order
Before(a, b) == a[1] < b[1] \/ (a[1] = b[1] /\ a[2] < b[2])

\* the calls of f: each on a non-empty batch, those of one call of DoArrow
\* in cursor order, none after an error of f or an observed cancellation
CallsOfF ==
    /\ \A k \in 1..Len(tbl.fLog) :
           /\ tbl.fLog[k].l > 0
           /\ tbl.fLog[k].l = BatchLen(tbl.fLog[k].batch[2])
           /\ ~tbl.fLog[k].stopped
           /\ ~tbl.fLog[k].first => ~tbl.fLog[k].cancelled
    /\ \A k \in 1..(Len(tbl.fLog) - 1) :
           IF tbl.fLog[k].call = tbl.fLog[k + 1].call
           THEN Before(tbl.fLog[k].batch, tbl.fLog[k + 1].batch)
           ELSE ~Before(tbl.fLog[k + 1].batch, tbl.fLog[k].batch)

\* no batch is read by DoArrow after an error of f or an observed cancellation
NoReadOnceStopped ==
    \A k \in 1..Len(tbl.advLog) : ~tbl.advLog[k].stopped

\* the error DoArrow returned is the one on the table, and it is f's error
\* when f failed during the call
ErrorReturned ==
    /\ (tbl.pc = "idle" /\ tbl.doCalls > 0) =>
           /\ Len(tbl.rets) = tbl.doCalls
           /\ tbl.rets[tbl.doCalls] = tbl.err
    /\ \A k \in 1..Len(tbl.fLog) :
           (k = tbl.fErrAt /\ tbl.fLog[k].call <= Len(tbl.rets)) =>
               tbl.rets[tbl.fLog[k].call] = ErrF
    /\ \A k \in 1..Len(tbl.advLog) :
           (tbl.advLog[k].err = ErrCursorType /\ tbl.advLog[k].call > 0
                /\ tbl.advLog[k].call <= Len(tbl.rets)) =>
               tbl.rets[tbl.advLog[k].call] = ErrCursorType

\* the mutex is free again only with the done signal closed
DoneBeforeUnlock ==
    (tbl.doCalls > 0 /\ tbl.mu = "") => tbl.done = "nil"

\* C20: a call of DoArrow invokes f on batches in cursor order and only on
\* non-empty batches; once f has returned an error or the cancellation has
\* been observed, the call invokes f no more and reads no further batch;
\* the first error is stored on the table and returned; and on every way
\* out (empty table, exhaustion, error, cancellation) the done signal is
\* closed before the mutex is released.
C20_DoArrowProtocol ==
    /\ CallsOfF
    /\ NoReadOnceStopped
    /\ ErrorReturned
    /\ DoneBeforeUnlock

\* a group table whose DoArrow gave f the batch of the first cursor and the
\* first batch of the second, got an error from f there, left the second
\* batch of the second cursor unread and returned the error
C20_Witness ==
    /\ IsGroupTable
    /\ tbl.fErrAt = 2
    /\ Len(tbl.fLog) = 2
    /\ tbl.fLog[1].batch = <<1, 1>> /\ tbl.fLog[2].batch = <<2, 1>>
    /\ tbl.cursors[2].n = 2 /\ tbl.cursors[2].pos = 1
    /\ tbl.rets = <<ErrF>>
    /\ tbl.err = ErrF
    /\ tbl.done = "nil" /\ tbl.mu = ""

\* C21: every read or write of a table's current cursor (in advance,
\* advanceCursor, Close and Statistics) happens with the table's mutex held,
\* so Statistics on another thread never observes the cursor while DoArrow
\* is advancing, replacing or closing it; for the plain table and for the
\* group table alike.
C21_CursorUnderMutex ==
    /\ \A k \in 1..Len(tbl.advLog) :
           tbl.advLog[k].call > 0 => tbl.advLog[k].mu = "Do"
    /\ tbl.spc = "stats" => tbl.mu = "Statistics"
    /\ tbl.spc # "panicked"

====
